---- MODULE Spec2Model ----
(***************************************************************************)
(* Distributed physical-instance managers of the Legion runtime            *)
(* (runtime/legion/legion_instances.cc): one manager (one distributed id)  *)
(* with its owner node and its remote proxies, the reference deltas the    *)
(* proxies forward to the owner, the transfer of the manager and of its    *)
(* layout description between nodes, and the deletion of the allocation.   *)
(***************************************************************************)
EXTENDS Integers, Sequences, FiniteSets, TLC

\* ------------------------------------------------------------------ bounds
NumRemotes == 2      \* remote nodes beside the owner
MaxRefs == 1         \* references of one kind the local users of a node hold
MaxInFlight == 2     \* messages in flight on one channel
MaxDeletions == 2    \* perform_deletion calls issued by the callers
MaxSends == 4        \* send_manager calls that find no remote instance
Log2MaxFields == 2   \* LOG2MAX: a field mask has 2^Log2MaxFields bits
MaxLayoutFields == 3 \* fields allocated in a layout whose offsets are computed
MaxCopyFields == 2   \* bits set in the mask of a compute_copy_offsets call
MaxCalls == 2        \* compute_copy_offsets calls made on a layout
MaxRegions == 2      \* regions an instance is built over
MaxCoord == 1        \* largest coordinate, and largest element, of a region
NumTrees == 2        \* region trees of the forest
TreeDepth == 2       \* levels of regions below the root of a region tree
Fanout == 2          \* subregions of a region that is not a leaf
MaxOrdering == 3     \* dimensions listed in an ordering constraint
MaxBuildFields == 2  \* fields in the field set of a build
NumContexts == 2     \* contexts that register a top view with a manager
NumViews == 2        \* logical views that are registered as top views
MaxRhs == 2          \* largest sizeof_rhs of a reduction operator
NumThreads == 2      \* threads that call compute_copy_offsets at a time

\* ------------------------------------------------------------- addressing
\* the owner's address space (owner_space of the manager)
Owner == 0
Nodes == 0..NumRemotes
Remotes == 1..NumRemotes

\* the three flavors of manager (delete_physical_manager dispatches on them)
ManagerKinds == {"instance", "fold", "list"}

VARIABLES
  kind,                 \* flavor of the manager
  own_domain,           \* the owner's manager owns its instance domain
  mgr,                  \* per node: "none" | "live" | "deleted" (registered manager object)
  gc_references,        \* per node: DistributedCollectable gc (active) count
  valid_references,     \* per node: DistributedCollectable valid count
  resource_references,  \* per node: DistributedCollectable resource count
  held_gc,              \* per node: gc references held by the node's local users
  held_valid,           \* per node: valid references held by local users
  held_resource,        \* per node: resource references held by local users
  remote_instances,     \* per node: DistributedCollectable::remote_instances
  known_nodes,          \* per node: LayoutDescription::known_nodes of the node's layout
  layout_refs,          \* per node: reference count of the node's layout (0: no layout)
  layouts,              \* per node: LayoutDescription objects alive on the node
  chan,                 \* chan[s][d]: FIFO of messages in flight from s to d
  pc,                   \* per node: position of the thread running send_manager
  send_target,          \* per node: target of the send_manager in progress
  rez,                  \* per node: the serialized manager of the send in progress
  instance_destroys,    \* destroy requests the allocator received for the instance
  perform_deletions,    \* perform_deletion calls made so far
  send_calls,           \* send_manager calls made so far
  mm_active,            \* per node: the memory manager holds the instance as active
  mm_valid,             \* per node: the memory manager holds the instance as valid
  mm_error,             \* per node: the first call its memory manager got out of turn
  collectable,          \* the owner's memory manager may collect the instance
  manager_sent,         \* pairs <<s, d>>: s has sent d a message with the manager
  manager_received,     \* pairs <<s, d>>: d has handled a manager message of s
  fault,                \* a handler dereferenced an absent layout
  debug_high_level,     \* the build defines DEBUG_HIGH_LEVEL
  allocated_fields,     \* LayoutDescription::allocated_fields
  field_indexes,        \* per layout: LayoutDescription::field_indexes
  field_infos,          \* per layout: LayoutDescription::field_infos
  comp_cache,           \* per layout: LayoutDescription::comp_cache
  fields,               \* per layout: the vector the caller collects records in
  call_log,             \* the compute_copy_offsets calls made so far
  layout_error,         \* how a call on the layout ended the process, if one did
  rez_layout,           \* the Serializer of the last pack of the layout
  copy_mask,            \* the mask handed to compress_mask
  compressed,           \* the mask compress_mask left in its first argument
  compress_ran,         \* compress_mask has run on copy_mask
  threads,              \* per thread: its call of compute_copy_offsets
  regions,              \* InstanceBuilder: the domains of the regions to cover
  instance_domain,      \* InstanceBuilder::instance_domain
  builder_own_domain,   \* InstanceBuilder::own_domain
  builder_valid,        \* InstanceBuilder::valid
  builder_pc,           \* "fresh" | "built" | "failed": how far the build has come
  index_spaces,         \* index spaces the builder created for a covering domain
  region_nodes,         \* InstanceBuilder: the region nodes of the regions to cover
  ancestor,             \* InstanceBuilder::ancestor
  specialized,          \* the kind of constraints.specialized_constraint
  ordering,             \* constraints.ordering_constraint.ordering
  field_constraint,     \* the field set of constraints.field_constraint
  block_size,           \* InstanceBuilder::block_size
  create_requests,      \* create_instance requests the allocator received
  distributed_ids,      \* distributed ids the runtime handed out
  log_run,              \* the errors logged
  needed_sizes,         \* what the calls of compute_needed_size returned
  logical_field,        \* ReductionManager::logical_field
  region_node,          \* PhysicalManager::region_node
  top_views,            \* PhysicalManager::top_views
  ptr_space,            \* ListReductionManager::ptr_space
  sizeof_rhs,           \* ReductionManager::op->sizeof_rhs
  asked,                \* the regions a caller asks meets_regions about
  query,                \* the last query made of the manager, and its answer
  reduce_fields,        \* the vector a caller of find_field_offsets collects in
  copies,               \* the copies the manager issued to the low-level runtime
  last                  \* the calls of the last step, when it created or
                        \* deleted a manager object

vars == <<kind, own_domain, mgr, gc_references, valid_references, resource_references,
          held_gc, held_valid, held_resource, remote_instances, known_nodes,
          layout_refs, layouts, chan, pc, send_target, rez, instance_destroys,
          perform_deletions, send_calls, mm_active, mm_valid, mm_error,
          collectable, manager_sent, manager_received, fault, last,
          debug_high_level, allocated_fields, field_indexes, field_infos,
          comp_cache, fields, call_log, layout_error, rez_layout, copy_mask,
          compressed, compress_ran, threads, regions, instance_domain,
          builder_own_domain, builder_valid, builder_pc, index_spaces,
          region_nodes, ancestor, specialized, ordering, field_constraint, block_size,
          create_requests, distributed_ids, log_run, needed_sizes, logical_field,
          region_node, top_views, ptr_space, sizeof_rhs, asked, query,
          reduce_fields, copies>>

\* the state of the instance builder
builderVars == <<regions, instance_domain, builder_own_domain, builder_valid,
                 builder_pc, index_spaces, region_nodes, ancestor, specialized,
                 ordering, field_constraint, block_size, create_requests,
                 distributed_ids, log_run, needed_sizes>>

\* the fields of the manager object its queries read, and the last query
queryVars == <<logical_field, region_node, top_views, ptr_space, sizeof_rhs,
               asked, query, reduce_fields, copies>>

\* the state of the layout descriptions and of the calls made on them
layoutVars == <<debug_high_level, allocated_fields, field_indexes, field_infos,
                comp_cache, fields, call_log, layout_error, rez_layout,
                copy_mask, compressed, compress_ran, threads>>

\* --------------------------------------------------------------- messages
GcUpdate(count, add) ==
  [type |-> "gc", add |-> add, count |-> count, has_local |-> FALSE]
ValidUpdate(count, add) ==
  [type |-> "valid", add |-> add, count |-> count, has_local |-> FALSE]
ResourceUpdate(count, add) ==
  [type |-> "resource", add |-> add, count |-> count, has_local |-> FALSE]
ManagerMessage(has_local) ==
  [type |-> "manager", add |-> FALSE, count |-> 0, has_local |-> has_local]

NoMessage == ManagerMessage(FALSE)

\* the effects of a call: memory-manager and runtime calls, and messages as
\* pairs <<destination, message>>
NoEffect == [calls |-> <<>>, sends |-> <<>>]
Then(e1, e2) == [calls |-> e1.calls \o e2.calls, sends |-> e1.sends \o e2.sends]

RECURSIVE Deliver(_, _, _)
Deliver(c, src, sends) ==
  IF sends = <<>> THEN c
  ELSE LET d == sends[1][1]
           m == sends[1][2]
       IN Deliver([c EXCEPT ![src][d] = Append(@, m)], src, Tail(sends))

RECURSIVE SetToSeq(_)
SetToSeq(S) ==
  IF S = {} THEN <<>>
  ELSE LET x == CHOOSE y \in S : \A z \in S : y <= z
       IN <<x>> \o SetToSeq(S \ {x})

Contains(seq, x) == \E i \in 1..Len(seq) : seq[i] = x
Count(seq, x) == Cardinality({i \in 1..Len(seq) : seq[i] = x})
Before(seq, x, y) ==
  \E i \in 1..Len(seq) : \E j \in 1..Len(seq) : i < j /\ seq[i] = x /\ seq[j] = y

is_owner(n) == n = Owner

\* ---------------------------------------------- PhysicalManager::notify_*
\* notify_active that tells the memory manager twice
notify_active_twice(n) ==
  [calls |-> <<"activate_instance", "activate_instance">>,
   sends |-> IF ~is_owner(n) THEN << <<Owner, GcUpdate(1, TRUE)>> >> ELSE <<>>]

notify_active(n) ==
  [calls |-> <<"activate_instance">>,
   sends |-> IF ~is_owner(n) THEN << <<Owner, GcUpdate(1, TRUE)>> >> ELSE <<>>]

\* notify_inactive that forgets the delta to the owner
notify_inactive_silent(n) ==
  [calls |-> <<"deactivate_instance">>, sends |-> <<>>]

notify_inactive(n) ==
  [calls |-> <<"deactivate_instance">>,
   sends |-> IF ~is_owner(n) THEN << <<Owner, GcUpdate(1, FALSE)>> >> ELSE <<>>]

\* notify_valid that tells the memory manager nothing
notify_valid_mute(n) ==
  [calls |-> <<>>,
   sends |-> IF ~is_owner(n) THEN << <<Owner, ValidUpdate(1, TRUE)>> >> ELSE <<>>]

notify_valid(n) ==
  [calls |-> <<"validate_instance">>,
   sends |-> IF ~is_owner(n) THEN << <<Owner, ValidUpdate(1, TRUE)>> >> ELSE <<>>]

\* notify_invalid that takes back a gc reference where a valid one is due
notify_invalid_as_gc(n) ==
  [calls |-> <<"invalidate_instance">>,
   sends |-> IF ~is_owner(n) THEN << <<Owner, GcUpdate(1, FALSE)>> >> ELSE <<>>]

\* notify_invalid that sends an add where a remove is due
notify_invalid_adds(n) ==
  [calls |-> <<"invalidate_instance">>,
   sends |-> IF ~is_owner(n) THEN << <<Owner, ValidUpdate(1, TRUE)>> >> ELSE <<>>]

notify_invalid(n) ==
  [calls |-> <<"invalidate_instance">>,
   sends |-> IF ~is_owner(n) THEN << <<Owner, ValidUpdate(1, FALSE)>> >> ELSE <<>>]

\* ------------------------------------------------------- memory manager
\* the memory manager of a node keeps the instance in its active and valid
\* tables; m = [active, valid, error] after a sequence of calls
RECURSIVE MemoryManagerAfter(_, _)
MemoryManagerAfter(m, calls) ==
  IF calls = <<>> THEN m
  ELSE LET c == calls[1]
           turn == CASE c = "activate_instance" -> ~m.active
                     [] c = "deactivate_instance" -> m.active
                     [] c = "validate_instance" -> ~m.valid
                     [] c = "invalidate_instance" -> m.valid
                     [] OTHER -> TRUE
           t == [active |-> CASE c = "activate_instance" -> TRUE
                              [] c = "deactivate_instance" -> FALSE
                              [] OTHER -> m.active,
                 valid |-> CASE c = "validate_instance" -> TRUE
                             [] c = "invalidate_instance" -> FALSE
                             [] OTHER -> m.valid,
                 error |-> IF m.error = "none" /\ ~turn THEN c ELSE m.error]
       IN MemoryManagerAfter(t, Tail(calls))

\* the instance becomes collectable when deactivated, and stops being so
\* when activated
RECURSIVE CollectableAfter(_, _)
CollectableAfter(b, calls) ==
  IF calls = <<>> THEN b
  ELSE CollectableAfter(CASE calls[1] = "activate_instance" -> FALSE
                          [] calls[1] = "deactivate_instance" -> TRUE
                          [] OTHER -> b, Tail(calls))

\* a step that neither creates nor deletes a manager object
Quiet == [op |-> "none", node |-> Owner, calls |-> <<>>]

\* ------------------------------------------------------------- FieldMask
\* a field mask is the set of its set bits; a shift drops the bits that
\* leave the MaxFields positions of the mask
MaxFields == 2^Log2MaxFields
Bits == 0..(MaxFields - 1)
FieldMasks == SUBSET Bits
MaskAnd(a, b) == a \cap b
MaskOr(a, b) == a \cup b
MaskXor(a, b) == (a \ b) \cup (b \ a)
MaskNot(a) == Bits \ a
MaskShl(a, k) == {b + k : b \in a} \cap Bits
MaskShr(a, k) == {b - k : b \in a} \cap Bits
pop_count(a) == Cardinality(a)

\* the position of the set bit with index set bits below it, -1 without one
find_index_set(a, index) ==
  IF index < 0 \/ index >= Cardinality(a) THEN -1
  ELSE CHOOSE b \in a : Cardinality({c \in a : c < b}) = index

\* the hash key of a mask folds its upper half onto its lower half
HalfFields == MaxFields \div 2
get_hash_key(a) == {b % HalfFields : b \in a}
HashKeys == SUBSET (0..(HalfFields - 1))

\* ------------------------------------- LayoutDescription::compress_mask
\* mp = mp ^ (mp << (1 << idx)) for idx up to LOG2MAX - 1
RECURSIVE ParallelSuffix(_, _)
ParallelSuffix(mp, idx) ==
  IF idx >= Log2MaxFields THEN mp
  ELSE ParallelSuffix(MaskXor(mp, MaskShl(mp, 2^idx)), idx + 1)

\* the rounds i .. rounds - 1 of the outer loop
RECURSIVE compress_rounds(_, _, _, _, _)
compress_rounds(x, m, mk, i, rounds) ==
  IF i >= rounds THEN x
  ELSE LET mp == ParallelSuffix(MaskXor(mk, MaskShl(mk, 1)), 1)
           mv == MaskAnd(mp, m)
           t == MaskAnd(x, mv)
       IN compress_rounds(MaskOr(MaskXor(x, t), MaskShr(t, 2^i)),
                          MaskOr(MaskXor(m, mv), MaskShr(mv, 2^i)),
                          MaskAnd(mk, MaskNot(mp)), i + 1, rounds)

\* a compression that stops one round early
compress_mask_short(x, m) ==
  compress_rounds(MaskAnd(x, m), m, MaskShl(MaskNot(m), 1), 0, Log2MaxFields - 1)

compress_mask(x, m) ==
  compress_rounds(MaskAnd(x, m), m, MaskShl(MaskNot(m), 1), 0, Log2MaxFields)

\* ------------------------------------------------------- FieldSpaceNode
\* the field space gave the field with id fid the bit MaxFields - fid, so
\* that the order of the ids is not the order of the bits
FieldIDs == 1..MaxFields
get_field_index(fid) == MaxFields - fid
FieldAt(b) == MaxFields - b
field_size(fid) == fid

\* the two layouts of a copy: the constraints of the source list the fields
\* by id, those of the destination by bit
LayoutNames == {"src", "dst"}
get_field_set(L, mask) ==
  IF L = "src" THEN SetToSeq({FieldAt(b) : b \in mask})
  ELSE [i \in 1..Cardinality(mask) |-> FieldAt(SetToSeq(mask)[i])]

\* compute_create_offsets: sizes and serdez ids in the order of the field
\* set, and for every set bit of the mask the place of its field in it
compute_create_offsets(field_set) ==
  LET mask == {get_field_index(field_set[i]) : i \in 1..Len(field_set)}
  IN [mask |-> mask,
      field_sizes |-> [i \in 1..Len(field_set) |->
                         <<field_set[i], field_size(field_set[i])>>],
      mask_index_map |-> [idx \in 1..Len(field_set) |->
                            CHOOSE i \in 1..Len(field_set) :
                              get_field_index(field_set[i])
                                = find_index_set(mask, idx - 1)],
      serdez |-> [i \in 1..Len(field_set) |-> 0]]

\* ------------------------------- LayoutDescription::LayoutDescription
\* the offsets the constructor computes over the fields in layout order
RECURSIVE ctor_offsets(_, _)
ctor_offsets(field_sizes, idx) ==
  IF idx = 1 THEN 0
  ELSE ctor_offsets(field_sizes, idx - 1) + field_sizes[idx][2]

NO_INST == "NO_INST"

\* a constructor that keeps the infos in the order of the field set
LayoutDescription_by_field_order(mask, mask_index_map, serdez, field_sizes) ==
  [field_indexes |->
     [fid \in {field_sizes[i][1] : i \in 1..Len(field_sizes)} |->
        (CHOOSE idx \in 1..Len(mask_index_map) :
           field_sizes[mask_index_map[idx]][1] = fid) - 1],
   field_infos |->
     [index \in 1..Len(mask_index_map) |->
        [field_id |-> field_sizes[index][1],
         offset |-> ctor_offsets(field_sizes, index),
         size |-> field_sizes[index][2],
         serdez_id |-> serdez[index],
         inst |-> NO_INST]]]

\* field_indexes and field_infos as the constructor fills them, in the order
\* of the bits of the mask (positions count from 1 here; field_id is kept by
\* NEW_INSTANCE_CREATION builds and tells here which field an info is of)
LayoutDescription(mask, mask_index_map, serdez, field_sizes) ==
  [field_indexes |->
     [fid \in {field_sizes[i][1] : i \in 1..Len(field_sizes)} |->
        (CHOOSE idx \in 1..Len(mask_index_map) :
           field_sizes[mask_index_map[idx]][1] = fid) - 1],
   field_infos |->
     [idx \in 1..Len(mask_index_map) |->
        LET index == mask_index_map[idx]
        IN [field_id |-> field_sizes[index][1],
            offset |-> ctor_offsets(field_sizes, index),
            size |-> field_sizes[index][2],
            serdez_id |-> serdez[index],
            inst |-> NO_INST]]]

\* create_layout_description for the fields of mask under the constraints
\* of layout L
create_layout_description(L, mask) ==
  LET c == compute_create_offsets(get_field_set(L, mask))
  IN LayoutDescription(c.mask, c.mask_index_map, c.serdez, c.field_sizes)

\* ------------------------- LayoutDescription::compute_copy_offsets(mask)
\* a lookup that never finds the mask
cache_find_blind(bucket, mask) == {}

\* the places of the mask in the list kept under its hash key
cache_find(bucket, mask) == {i \in 1..Len(bucket) : bucket[i][1] = mask}

\* a call that checks the popcounts in every build
compute_copy_offsets_checked(L, mask, instance) ==
  LET hash_key == get_hash_key(mask)
      bucket == comp_cache[L][hash_key]
      finder == cache_find(bucket, mask)
      found_in_cache == finder # {}
      result == IF found_in_cache
                THEN bucket[CHOOSE i \in finder : \A j \in finder : i <= j][2]
                ELSE compress_mask(mask, allocated_fields)
      pop == pop_count(result)
      failed == pop # pop_count(mask)
  IN [comp_cache |-> IF found_in_cache THEN comp_cache[L]
                     ELSE [comp_cache[L] EXCEPT
                             ![hash_key] = Append(@, <<mask, result>>)],
      found_in_cache |-> found_in_cache,
      error |-> IF failed THEN "assert" ELSE "none",
      appended |-> IF failed THEN <<>>
                   ELSE [idx \in 1..pop |->
                           [field_infos[L][find_index_set(result, idx - 1) + 1]
                              EXCEPT !.inst = instance]]]

\* the call on layout L: the cache of L after it, the records it appends
\* and how it ends
compute_copy_offsets(L, mask, instance) ==
  LET hash_key == get_hash_key(mask)
      bucket == comp_cache[L][hash_key]
      finder == cache_find(bucket, mask)
      found_in_cache == finder # {}
      result == IF found_in_cache
                THEN bucket[CHOOSE i \in finder : \A j \in finder : i <= j][2]
                ELSE compress_mask(mask, allocated_fields)
      pop == pop_count(result)
      failed == debug_high_level /\ pop # pop_count(mask)
  IN [comp_cache |-> IF found_in_cache THEN comp_cache[L]
                     ELSE [comp_cache[L] EXCEPT
                             ![hash_key] = Append(@, <<mask, result>>)],
      found_in_cache |-> found_in_cache,
      error |-> IF failed THEN "assert" ELSE "none",
      appended |-> IF failed THEN <<>>
                   ELSE [idx \in 1..pop |->
                           [field_infos[L][find_index_set(result, idx - 1) + 1]
                              EXCEPT !.inst = instance]]]

\* the threads that call compute_copy_offsets on the source layout, and a
\* thread that is in no call
Threads == 1..NumThreads
IdleThread == [pc |-> "idle", mask |-> {}, found_in_cache |-> FALSE,
               compressed |-> {}, fields |-> <<>>]

\* the layouts at rest: layouts of the fields of mask, nothing called yet
LayoutsOf(mask) ==
  /\ threads = [t \in Threads |-> IdleThread]
  /\ allocated_fields = mask
  /\ field_indexes = [L \in LayoutNames |-> create_layout_description(L, mask).field_indexes]
  /\ field_infos = [L \in LayoutNames |-> create_layout_description(L, mask).field_infos]
  /\ comp_cache = [L \in LayoutNames |-> [h \in HashKeys |-> <<>>]]
  /\ fields = [L \in LayoutNames |-> <<>>]
  /\ call_log = <<>>
  /\ layout_error = "none"
  /\ rez_layout = [target |-> Owner, items |-> <<>>]
  /\ compressed = {}
  /\ compress_ran = FALSE

\* --------------------------------------------------------------- Domain
\* a domain of dim 1, 2 or 3 is a rectangle, lo and hi its corners; a
\* domain of dim 0 is an index space, mask the elements valid in it
MaxDim == 3
Axes(dim) == 1..dim
Rect(lo, hi) == [dim |-> Len(lo), lo |-> lo, hi |-> hi, mask |-> {}]
IndexSpace(mask) == [dim |-> 0, lo |-> <<>>, hi |-> <<>>, mask |-> mask]
NO_DOMAIN == IndexSpace({})

\* Rect<N>::convex_hull: the smallest rectangle around both
convex_hull(r, other) ==
  Rect([a \in Axes(r.dim) |-> IF other.lo[a] < r.lo[a] THEN other.lo[a] ELSE r.lo[a]],
       [a \in Axes(r.dim) |-> IF other.hi[a] > r.hi[a] THEN other.hi[a] ELSE r.hi[a]])

\* the domains a region of dimension dim may have: it is not empty
RegionDomains(dim) ==
  IF dim = 0
  THEN {IndexSpace(m) : m \in SUBSET (0..MaxCoord) \ {{}}}
  ELSE LET Corners == [Axes(dim) -> 0..MaxCoord]
       IN {Rect(p[1], p[2]) :
             p \in {q \in Corners \X Corners :
                      \A a \in Axes(dim) : q[1][a] <= q[2][a]}}

\* Domain::get_volume: the number of points of a domain
RECURSIVE volume_of(_, _)
volume_of(d, a) ==
  IF a > d.dim THEN 1 ELSE (d.hi[a] - d.lo[a] + 1) * volume_of(d, a + 1)

get_volume(d) == IF d.dim = 0 THEN Cardinality(d.mask) ELSE volume_of(d, 1)

\* ----------------------------------------------------- the region trees
\* a region node is the path to it from the root of its tree: the id of
\* the tree, then the subregion taken at every level below the root
RECURSIVE NodesBelow(_, _)
NodesBelow(node, levels) ==
  IF levels = 0 THEN {node}
  ELSE {node} \cup UNION {NodesBelow(Append(node, c), levels - 1) :
                            c \in 1..Fanout}

RegionNodes == UNION {NodesBelow(<<t>>, TreeDepth) : t \in 1..NumTrees}
NULL == <<>>

\* handle.get_tree_id() of a region node
get_tree_id(node) == node[1]

\* row_source->depth: a partition lies between a region and its subregions
depth(node) == 2 * (Len(node) - 1)

\* RegionNode::parent: the partition the region is a subregion of, NULL for
\* the root of a tree; a partition is known by the region it divides
parent(node) == IF Len(node) = 1 THEN NULL ELSE <<SubSeq(node, 1, Len(node) - 1)>>

\* PartitionNode::parent: the region the partition divides
partition_parent(partition) == partition[1]

\* the nodes on the way from node to the root of its tree, node among them
ancestors_or_self(node) == {SubSeq(node, 1, k) : k \in 1..Len(node)}

\* -------------------------------- InstanceBuilder::find_common_ancestor
\* a climb through a parent that is NULL: the assertion of a
\* DEBUG_HIGH_LEVEL build fails, any other build dereferences NULL
null_parent(debug) == IF debug THEN "assert" ELSE "undefined"

\* the first loop: one climbs while it lies deeper than two
RECURSIVE level_one(_, _, _)
level_one(one, two, debug) ==
  IF depth(one) > depth(two)
  THEN IF parent(one) = NULL
       THEN [one |-> one, two |-> two, error |-> null_parent(debug)]
       ELSE level_one(partition_parent(parent(one)), two, debug)
  ELSE [one |-> one, two |-> two, error |-> "none"]

\* the second loop: two climbs while it lies deeper than one
RECURSIVE level_two(_, _, _)
level_two(one, two, debug) ==
  IF depth(one) < depth(two)
  THEN IF parent(two) = NULL
       THEN [one |-> one, two |-> two, error |-> null_parent(debug)]
       ELSE level_two(one, partition_parent(parent(two)), debug)
  ELSE [one |-> one, two |-> two, error |-> "none"]

\* the third loop: both climb until they are the same node
RECURSIVE climb_both(_, _, _)
climb_both(one, two, debug) ==
  IF one # two
  THEN IF parent(one) = NULL \/ parent(two) = NULL
       THEN [one |-> one, two |-> two, error |-> null_parent(debug)]
       ELSE climb_both(partition_parent(parent(one)),
                       partition_parent(parent(two)), debug)
  ELSE [one |-> one, two |-> two, error |-> "none"]

\* the node returned, or how the search ended without one
find_common_ancestor(one, two, debug) ==
  LET first == level_one(one, two, debug)
      second == level_two(first.one, first.two, debug)
      third == climb_both(second.one, second.two, debug)
  IN IF first.error # "none" THEN [node |-> NULL, error |-> first.error]
     ELSE IF second.error # "none" THEN [node |-> NULL, error |-> second.error]
     ELSE IF third.error # "none" THEN [node |-> NULL, error |-> third.error]
     ELSE [node |-> third.one, error |-> "none"]

\* the loop of compute_ancestor_and_domain over the regions idx..: the
\* common ancestor of the ancestor so far and of the next region
RECURSIVE common_ancestors(_, _, _, _)
common_ancestors(anc, nodes, idx, debug) ==
  IF idx > Len(nodes) THEN [node |-> anc, error |-> "none"]
  ELSE LET found == find_common_ancestor(anc, nodes[idx], debug)
       IN IF found.error # "none" THEN found
          ELSE common_ancestors(found.node, nodes, idx + 1, debug)

\* ------------------------ InstanceBuilder::compute_ancestor_and_domain
\* the element masks of the regions idx.. or-ed into result
RECURSIVE union_valid_masks(_, _, _)
union_valid_masks(result, rs, idx) ==
  IF idx > Len(rs) THEN result
  ELSE union_valid_masks(result \cup rs[idx].mask, rs, idx + 1)

\* the rectangles of the regions idx.. taken into the hull result
RECURSIVE hull_of_rects(_, _, _)
hull_of_rects(result, rs, idx) ==
  IF idx > Len(rs) THEN result
  ELSE hull_of_rects(convex_hull(result, rs[idx]), rs, idx + 1)

\* a computation that takes the domain of the first region for all
compute_ancestor_and_domain_first_only(rs, own) ==
  [instance_domain |-> rs[1], own_domain |-> own /\ Len(rs) > 1, created |-> 0]

\* a computation that takes every domain it puts together for its own
compute_ancestor_and_domain_owns_all(rs, own) ==
  IF Len(rs) > 1
  THEN IF rs[1].dim = 0
       THEN [instance_domain |-> IndexSpace(union_valid_masks(rs[1].mask, rs, 2)),
             own_domain |-> TRUE, created |-> 1]
       ELSE [instance_domain |-> hull_of_rects(rs[1], rs, 2),
             own_domain |-> TRUE, created |-> 0]
  ELSE [instance_domain |-> rs[1], own_domain |-> own, created |-> 0]

\* the covering domain of the regions rs for a builder whose own_domain is
\* own: instance_domain, own_domain after the call and the index spaces the
\* call created
compute_ancestor_and_domain(rs, own) ==
  IF Len(rs) > 1
  THEN IF rs[1].dim = 0
       THEN [instance_domain |-> IndexSpace(union_valid_masks(rs[1].mask, rs, 2)),
             own_domain |-> TRUE, created |-> 1]
       ELSE [instance_domain |-> hull_of_rects(rs[1], rs, 2),
             own_domain |-> own, created |-> 0]
  ELSE [instance_domain |-> rs[1], own_domain |-> own, created |-> 0]

\* ---------------------------- InstanceBuilder::compute_old_parameters
\* SpecializedConstraint kinds and the DimensionKind values of an ordering
Specializations == {"NORMAL_SPECIALIZE", "REDUCTION_FOLD_SPECIALIZE",
                    "REDUCTION_LIST_SPECIALIZE", "VIRTUAL_SPECIALIZE"}
DIM_F == "DIM_F"
DimensionKinds == {"DIM_X", "DIM_Y", DIM_F}

\* parameters that take every NORMAL instance for SOA
compute_old_parameters_soa(k, ord, volume) ==
  CASE k = "NORMAL_SPECIALIZE" ->
         [block_size |-> volume, error |-> "none", log |-> <<>>]
    [] k = "REDUCTION_FOLD_SPECIALIZE" ->
         [block_size |-> 1, error |-> "none", log |-> <<>>]
    [] k = "REDUCTION_LIST_SPECIALIZE" ->
         [block_size |-> 0, error |-> "assert", log |-> <<>>]
    [] OTHER ->
         [block_size |-> 0, error |-> "assert",
          log |-> <<"Illegal request to create a virtual instance">>]

\* parameters that leave a virtual specialization to the switch that makes
\* the manager
compute_old_parameters_virtual_late(k, ord, volume) ==
  CASE k = "NORMAL_SPECIALIZE" ->
         IF ord # <<>>
         THEN IF ord[1] = DIM_F
              THEN [block_size |-> 1, error |-> "none", log |-> <<>>]
              ELSE IF ord[Len(ord)] = DIM_F
              THEN [block_size |-> volume, error |-> "none", log |-> <<>>]
              ELSE IF \E idx \in 1..Len(ord) : ord[idx] = DIM_F
              THEN [block_size |-> 0, error |-> "assert", log |-> <<>>]
              ELSE [block_size |-> volume, error |-> "none", log |-> <<>>]
         ELSE [block_size |-> volume, error |-> "none", log |-> <<>>]
    [] k = "REDUCTION_FOLD_SPECIALIZE" ->
         [block_size |-> 1, error |-> "none", log |-> <<>>]
    [] k = "REDUCTION_LIST_SPECIALIZE" ->
         [block_size |-> 0, error |-> "assert", log |-> <<>>]
    [] OTHER ->
         [block_size |-> 0, error |-> "none", log |-> <<>>]

\* the switch on the specialization: the block size of the instance, the
\* error logged and whether an assertion ended the process
compute_old_parameters(k, ord, volume) ==
  CASE k = "NORMAL_SPECIALIZE" ->
         IF ord # <<>>
         THEN IF ord[1] = DIM_F
              THEN [block_size |-> 1, error |-> "none", log |-> <<>>]
              ELSE IF ord[Len(ord)] = DIM_F
              THEN [block_size |-> volume, error |-> "none", log |-> <<>>]
              ELSE IF \E idx \in 1..Len(ord) : ord[idx] = DIM_F
              THEN [block_size |-> 0, error |-> "assert", log |-> <<>>]
              ELSE [block_size |-> volume, error |-> "none", log |-> <<>>]
         ELSE [block_size |-> volume, error |-> "none", log |-> <<>>]
    [] k = "REDUCTION_FOLD_SPECIALIZE" ->
         [block_size |-> 1, error |-> "none", log |-> <<>>]
    [] k = "REDUCTION_LIST_SPECIALIZE" ->
         [block_size |-> 0, error |-> "assert", log |-> <<>>]
    [] OTHER ->
         [block_size |-> 0, error |-> "assert",
          log |-> <<"Illegal request to create a virtual instance">>]

\* the builder climbs through a NULL parent on its search for the ancestor
climbs_null ==
  common_ancestors(region_nodes[1], region_nodes, 2, debug_high_level).error
    = "undefined"

\* the builder reads the first of no field sizes for a fold reduction
reads_no_field ==
  /\ specialized = "REDUCTION_FOLD_SPECIALIZE"
  /\ field_constraint = <<>>
  /\ ~debug_high_level

\* what the undefined behaviour of a build may come to: the process crashes,
\* or it goes on with node for the region node and field for the field id
\* it read; a build that stays clear of it has one outcome
UndefinedSteps ==
  [crash : IF climbs_null \/ reads_no_field THEN BOOLEAN ELSE {FALSE},
   node : IF climbs_null THEN RegionNodes ELSE {NULL},
   field : IF reads_no_field THEN FieldIDs ELSE {0}]

\* ------------------------------------- InstanceBuilder::initialize
\* compute_ancestor_and_domain, then compute_old_parameters: the fields of
\* the builder after the call, the index spaces it created, the errors it
\* logged and how it ended ("none": it returned)
initialize(undefined) ==
  LET anc == common_ancestors(region_nodes[1], region_nodes, 2, debug_high_level)
      dom == compute_ancestor_and_domain(regions, builder_own_domain)
      par == compute_old_parameters(specialized, ordering,
                                    get_volume(dom.instance_domain))
      stopped == [ancestor |-> ancestor, instance_domain |-> instance_domain,
                  own_domain |-> builder_own_domain, created |-> 0,
                  block_size |-> block_size, log |-> <<>>, error |-> "none"]
  IN IF anc.error = "assert"
     THEN [stopped EXCEPT !.error = "assert"]
     ELSE IF anc.error = "undefined" /\ undefined.crash
     THEN [stopped EXCEPT !.error = "crash"]
     ELSE [ancestor |-> IF anc.error = "undefined" THEN undefined.node
                        ELSE anc.node,
           instance_domain |-> dom.instance_domain,
           own_domain |-> dom.own_domain,
           created |-> dom.created,
           block_size |-> par.block_size,
           log |-> par.log,
           error |-> par.error]

\* no build is under way
BuilderAtRest ==
  /\ regions = <<>>
  /\ instance_domain = NO_DOMAIN
  /\ builder_own_domain = FALSE
  /\ builder_valid = FALSE
  /\ builder_pc = "built"
  /\ index_spaces = 0
  /\ region_nodes = <<>>
  /\ ancestor = NULL
  /\ specialized = "NORMAL_SPECIALIZE"
  /\ ordering = <<>>
  /\ field_constraint = <<>>
  /\ block_size = 0
  /\ create_requests = 0
  /\ distributed_ids = 0
  /\ log_run = <<>>
  /\ needed_sizes = <<>>

\* ----------------------------------- the fields the queries of a manager read
Contexts == 1..NumContexts
Views == 1..NumViews
NoView == 0
NoQuery == [op |-> "none", ended |-> "none"]

\* a manager on the first subregion of the first region tree that was
\* asked nothing
QueriesAtRest ==
  /\ logical_field = 0
  /\ region_node = <<1, 1>>
  /\ top_views = [c \in Contexts |-> NoView]
  /\ ptr_space = NO_DOMAIN
  /\ sizeof_rhs = 1
  /\ asked = <<>>
  /\ query = NoQuery
  /\ reduce_fields = <<>>
  /\ copies = <<>>

\* ------------------------------------------------------------------ Init
EmptyChannels == [s \in Nodes |-> [d \in Nodes |-> <<>>]]

\* the managers after construction: the owner has its manager, no proxy yet
InitManagers ==
  /\ mgr = [n \in Nodes |-> IF is_owner(n) THEN "live" ELSE "none"]
  /\ gc_references = [n \in Nodes |-> 0]
  /\ valid_references = [n \in Nodes |-> 0]
  /\ resource_references = [n \in Nodes |-> 0]
  /\ held_gc = [n \in Nodes |-> 0]
  /\ held_valid = [n \in Nodes |-> 0]
  /\ held_resource = [n \in Nodes |-> 0]
  /\ remote_instances = [n \in Nodes |-> {}]
  /\ known_nodes = [n \in Nodes |-> {}]
  /\ layout_refs = [n \in Nodes |-> IF is_owner(n) /\ kind = "instance" THEN 1 ELSE 0]
  /\ layouts = [n \in Nodes |-> IF is_owner(n) /\ kind = "instance" THEN 1 ELSE 0]
  /\ chan = EmptyChannels
  /\ pc = [n \in Nodes |-> "idle"]
  /\ send_target = [n \in Nodes |-> n]
  /\ rez = [n \in Nodes |-> NoMessage]
  /\ instance_destroys = 0
  /\ perform_deletions = 0
  /\ send_calls = 0
  /\ mm_active = [n \in Nodes |-> FALSE]
  /\ mm_valid = [n \in Nodes |-> FALSE]
  /\ mm_error = [n \in Nodes |-> "none"]
  /\ collectable = FALSE
  /\ manager_sent = {}
  /\ manager_received = {}
  /\ fault = FALSE
  /\ last = Quiet
  /\ QueriesAtRest

\* a manager of any kind, its layout of one field, a release build
Init ==
  /\ kind \in ManagerKinds
  /\ own_domain \in BOOLEAN
  /\ InitManagers
  /\ debug_high_level = FALSE
  /\ copy_mask = {}
  /\ LayoutsOf({0})
  /\ BuilderAtRest

\* ------------------------------------------------- destruction of a manager
\* an instance-manager destructor that keeps its reference on the layout
derived_destructor_keeps_layout ==
  [calls |-> CASE kind = "list" -> <<"ptr_space.destroy">>
               [] OTHER -> <<>>,
   sends |-> <<>>]

\* InstanceManager::~InstanceManager / ListReductionManager::~ListReductionManager
derived_destructor ==
  [calls |-> CASE kind = "instance" -> <<"layout.remove_reference">>
               [] kind = "list" -> <<"ptr_space.destroy">>
               [] OTHER -> <<>>,
   sends |-> <<>>]

\* a destructor that destroys the instance it finds still existing
base_destructor_destroys(n, registered) ==
  [calls |-> (IF registered THEN <<"unregister_physical_manager">> ELSE <<>>)
             \o (IF is_owner(n) THEN <<>> ELSE <<"unregister_remote_instance">>)
             \o (IF is_owner(n) THEN <<"instance.destroy">> ELSE <<>>)
             \o (IF is_owner(n) /\ own_domain THEN <<"index_space.destroy">> ELSE <<>>),
   sends |-> IF is_owner(n)
             THEN [i \in 1..Cardinality(remote_instances[n]) |->
                     <<SetToSeq(remote_instances[n])[i], ResourceUpdate(1, FALSE)>>]
             ELSE <<>>]

\* a destructor that unregisters from the memory manager only an object
\* that was registered with the runtime
base_destructor_registered_only(n, registered) ==
  [calls |-> (IF registered THEN <<"unregister_physical_manager">> ELSE <<>>)
             \o (IF is_owner(n) \/ ~registered THEN <<>>
                 ELSE <<"unregister_remote_instance">>)
             \o (IF is_owner(n) THEN <<"log_leak.warning">> ELSE <<>>)
             \o (IF is_owner(n) /\ own_domain THEN <<"index_space.destroy">> ELSE <<>>),
   sends |-> IF is_owner(n)
             THEN [i \in 1..Cardinality(remote_instances[n]) |->
                     <<SetToSeq(remote_instances[n])[i], ResourceUpdate(1, FALSE)>>]
             ELSE <<>>]

\* PhysicalManager::~PhysicalManager of the manager object of node n;
\* registered: the object was registered with the runtime.  The owner's
\* instance handle exists (the builder makes no manager without one, and
\* perform_deletion, a const method, leaves the handle as it is), so the
\* owner always logs the leak.  Managers made from a message do not own
\* their domain.
base_destructor(n, registered) ==
  [calls |-> (IF registered THEN <<"unregister_physical_manager">> ELSE <<>>)
             \o (IF is_owner(n) THEN <<>> ELSE <<"unregister_remote_instance">>)
             \o (IF is_owner(n) THEN <<"log_leak.warning">> ELSE <<>>)
             \o (IF is_owner(n) /\ own_domain THEN <<"index_space.destroy">> ELSE <<>>),
   sends |-> IF is_owner(n)
             THEN [i \in 1..Cardinality(remote_instances[n]) |->
                     <<SetToSeq(remote_instances[n])[i], ResourceUpdate(1, FALSE)>>]
             ELSE <<>>]

\* PhysicalManager::delete_physical_manager
delete_physical_manager(n, registered) ==
  Then([calls |-> <<"legion_delete">>, sends |-> <<>>],
       Then(derived_destructor, base_destructor(n, registered)))

\* the layout of node n after one reference to it is removed
LayoutRefsAfterRemove(n) == [layout_refs EXCEPT ![n] = @ - 1]
\* the layout is deleted when remove_reference reports the last reference
LayoutsAfterRemove(n) ==
  IF layout_refs[n] = 1 THEN [layouts EXCEPT ![n] = @ - 1] ELSE layouts
KnownNodesAfterRemove(n) ==
  IF layout_refs[n] = 1 THEN [known_nodes EXCEPT ![n] = {}] ELSE known_nodes

\* ----------------------------------------------- DistributedCollectable
\* can_delete: no reference of any kind is left
can_delete(g, v, r) == g = 0 /\ v = 0 /\ r = 0

\* the registered manager of node n gets counts (g, v, r) with effects eff;
\* when removed is set and no reference is left the caller deletes it.
\* base is the channel state before the sends of this step.
Apply(op, n, g, v, r, eff, removed, base) ==
  LET dead == removed /\ can_delete(g, v, r)
      full == IF dead THEN Then(eff, delete_physical_manager(n, TRUE)) ELSE eff
  IN /\ dead => pc[n] = "idle"
     /\ \A d \in Nodes :
          Len(base[n][d])
            + Cardinality({i \in 1..Len(full.sends) : full.sends[i][1] = d})
            <= MaxInFlight
     /\ gc_references' = [gc_references EXCEPT ![n] = g]
     /\ valid_references' = [valid_references EXCEPT ![n] = v]
     /\ resource_references' = [resource_references EXCEPT ![n] = r]
     /\ mgr' = IF dead THEN [mgr EXCEPT ![n] = "deleted"] ELSE mgr
     /\ layout_refs' = IF dead /\ kind = "instance"
                       THEN LayoutRefsAfterRemove(n) ELSE layout_refs
     /\ layouts' = IF dead /\ kind = "instance"
                   THEN LayoutsAfterRemove(n) ELSE layouts
     /\ known_nodes' = IF dead /\ kind = "instance"
                       THEN KnownNodesAfterRemove(n) ELSE known_nodes
     /\ chan' = Deliver(base, n, full.sends)
     /\ LET m == MemoryManagerAfter([active |-> mm_active[n], valid |-> mm_valid[n],
                                      error |-> mm_error[n]], full.calls)
        IN /\ mm_active' = [mm_active EXCEPT ![n] = m.active]
           /\ mm_valid' = [mm_valid EXCEPT ![n] = m.valid]
           /\ mm_error' = [mm_error EXCEPT ![n] = m.error]
     /\ collectable' = IF is_owner(n) THEN CollectableAfter(collectable, full.calls)
                       ELSE collectable
     /\ instance_destroys' = instance_destroys + Count(full.calls, "instance.destroy")
     /\ last' = IF dead THEN [op |-> op, node |-> n, calls |-> full.calls]
                ELSE Quiet

Running(n) == ~fault /\ mgr[n] = "live"

mmVars == <<mm_active, mm_valid, mm_error, collectable>>
heldVars == <<held_gc, held_valid, held_resource>>
sendVars == <<pc, send_target, rez, send_calls, manager_sent>>

\* add_base_gc_ref by a local user: the first reference activates
add_base_gc_ref(n) ==
  /\ Running(n)
  /\ held_gc[n] < MaxRefs
  /\ Apply("add_base_gc_ref", n, gc_references[n] + 1, valid_references[n],
           resource_references[n],
           IF gc_references[n] = 0 THEN notify_active(n) ELSE NoEffect,
           FALSE, chan)
  /\ held_gc' = [held_gc EXCEPT ![n] = @ + 1]
  /\ UNCHANGED <<builderVars, queryVars, layoutVars, kind, own_domain,
                 held_valid, held_resource, remote_instances, sendVars,
                 perform_deletions, manager_received, fault>>

\* remove_base_gc_ref by a local user: the last reference deactivates
remove_base_gc_ref(n) ==
  /\ Running(n)
  /\ held_gc[n] > held_valid[n]
  /\ Apply("remove_base_gc_ref", n, gc_references[n] - 1, valid_references[n],
           resource_references[n],
           IF gc_references[n] = 1 THEN notify_inactive(n) ELSE NoEffect,
           TRUE, chan)
  /\ held_gc' = [held_gc EXCEPT ![n] = @ - 1]
  /\ UNCHANGED <<builderVars, queryVars, layoutVars, kind, own_domain,
                 held_valid, held_resource, remote_instances, sendVars,
                 perform_deletions, manager_received, fault>>

\* add_base_valid_ref by a local user that holds the manager active
add_base_valid_ref(n) ==
  /\ Running(n)
  /\ held_valid[n] < held_gc[n]
  /\ Apply("add_base_valid_ref", n, gc_references[n], valid_references[n] + 1,
           resource_references[n],
           IF valid_references[n] = 0 THEN notify_valid(n) ELSE NoEffect,
           FALSE, chan)
  /\ held_valid' = [held_valid EXCEPT ![n] = @ + 1]
  /\ UNCHANGED <<builderVars, queryVars, layoutVars, kind, own_domain,
                 held_gc, held_resource, remote_instances, sendVars,
                 perform_deletions, manager_received, fault>>

\* remove_base_valid_ref by a local user: the last reference invalidates
remove_base_valid_ref(n) ==
  /\ Running(n)
  /\ held_valid[n] > 0
  /\ Apply("remove_base_valid_ref", n, gc_references[n], valid_references[n] - 1,
           resource_references[n],
           IF valid_references[n] = 1 THEN notify_invalid(n) ELSE NoEffect,
           TRUE, chan)
  /\ held_valid' = [held_valid EXCEPT ![n] = @ - 1]
  /\ UNCHANGED <<builderVars, queryVars, layoutVars, kind, own_domain,
                 held_gc, held_resource, remote_instances, sendVars,
                 perform_deletions, manager_received, fault>>

\* add_base_resource_ref by a local user: no external effect
add_base_resource_ref(n) ==
  /\ Running(n)
  /\ held_resource[n] < MaxRefs
  /\ Apply("add_base_resource_ref", n, gc_references[n], valid_references[n],
           resource_references[n] + 1, NoEffect, FALSE, chan)
  /\ held_resource' = [held_resource EXCEPT ![n] = @ + 1]
  /\ UNCHANGED <<builderVars, queryVars, layoutVars, kind, own_domain,
                 held_gc, held_valid, remote_instances, sendVars,
                 perform_deletions, manager_received, fault>>

\* remove_base_resource_ref by a local user; reports whether to delete
remove_base_resource_ref(n) ==
  /\ Running(n)
  /\ held_resource[n] > 0
  /\ Apply("remove_base_resource_ref", n, gc_references[n], valid_references[n],
           resource_references[n] - 1, NoEffect, TRUE, chan)
  /\ held_resource' = [held_resource EXCEPT ![n] = @ - 1]
  /\ UNCHANGED <<builderVars, queryVars, layoutVars, kind, own_domain,
                 held_gc, held_valid, remote_instances, sendVars,
                 perform_deletions, manager_received, fault>>

\* a message is consumed and changes nothing else of the manager
Discard(base) ==
  /\ chan' = base
  /\ last' = Quiet
  /\ UNCHANGED <<mgr, gc_references, valid_references, resource_references,
                 layout_refs, layouts, known_nodes, mmVars, instance_destroys>>

\* handle of a gc or valid delta at the owner (message from remote s)
handle_remote_update(s) ==
  /\ ~fault
  /\ chan[s][Owner] # <<>>
  /\ Head(chan[s][Owner]).type \in {"gc", "valid"}
  /\ LET m == Head(chan[s][Owner])
         base == [chan EXCEPT ![s][Owner] = Tail(@)]
         g == gc_references[Owner]
         v == valid_references[Owner]
         g2 == IF m.type # "gc" THEN g
               ELSE IF m.add THEN g + m.count ELSE g - m.count
         v2 == IF m.type # "valid" THEN v
               ELSE IF m.add THEN v + m.count ELSE v - m.count
         eff == CASE g = 0 /\ g2 > 0 -> notify_active(Owner)
                  [] g > 0 /\ g2 = 0 -> notify_inactive(Owner)
                  [] v = 0 /\ v2 > 0 -> notify_valid(Owner)
                  [] v > 0 /\ v2 = 0 -> notify_invalid(Owner)
                  [] OTHER -> NoEffect
     IN IF mgr[Owner] = "live"
        THEN Apply("handle_remote_update", Owner, g2, v2,
                   resource_references[Owner], eff, ~m.add, base)
        ELSE \* the distributed id is no longer registered: nothing to update
             Discard(base)
  /\ UNCHANGED <<builderVars, queryVars, layoutVars, kind, own_domain,
                 heldVars, remote_instances, sendVars,
                 perform_deletions, manager_received, fault>>

\* handle of the resource delta the destroyed owner sends to a remote
\* instance: the proxy loses its REMOTE_DID_REF
handle_remote_resource_update(n) ==
  /\ ~fault
  /\ chan[Owner][n] # <<>>
  /\ Head(chan[Owner][n]).type = "resource"
  /\ LET m == Head(chan[Owner][n])
         base == [chan EXCEPT ![Owner][n] = Tail(@)]
     IN IF mgr[n] = "live" /\ resource_references[n] > held_resource[n]
        THEN Apply("handle_remote_resource_update", n, gc_references[n],
                   valid_references[n], resource_references[n] - m.count,
                   NoEffect, TRUE, base)
        ELSE Discard(base)
  /\ UNCHANGED <<builderVars, queryVars, layoutVars, kind, own_domain,
                 heldVars, remote_instances, sendVars,
                 perform_deletions, manager_received, fault>>

\* ------------------------------------- PhysicalManager::perform_deletion
\* the body of perform_deletion: the instance is destroyed, whatever came
\* before (the method keeps no record of an earlier call)
perform_deletion_effect == [calls |-> <<"instance.destroy">>, sends |-> <<>>]

\* called by the memory manager for an instance it holds as collectable
perform_deletion ==
  /\ Running(Owner)
  /\ collectable
  /\ perform_deletions < MaxDeletions
  /\ perform_deletions' = perform_deletions + 1
  /\ instance_destroys' =
       instance_destroys + Count(perform_deletion_effect.calls, "instance.destroy")
  /\ last' = Quiet
  /\ UNCHANGED <<builderVars, queryVars, layoutVars, kind, own_domain,
                 mgr, gc_references, valid_references,
                 resource_references, heldVars, remote_instances, known_nodes,
                 layout_refs, layouts, chan, sendVars, mmVars, manager_received, fault>>

\* ------------------------------------------------ LayoutDescription
\* constraints->send_constraints: the distributed id of the constraints
send_constraints(target) == "constraint_did"

\* a pack that never says the target has the layout
pack_layout_description_unflagged(n, target) ==
  <<FALSE, send_constraints(target), allocated_fields>>

\* pack_layout_description of the layout of node n: the items it serializes;
\* the flag tells whether the target has the layout
pack_layout_description(n, target) ==
  <<target \in known_nodes[n], send_constraints(target), allocated_fields>>

\* update_known_nodes on the layout of node n
update_known_nodes(kn, n, target) == [kn EXCEPT ![n] = @ \cup {target}]

\* DistributedCollectable::update_remote_instances
update_remote_instances(ri, n, target) == [ri EXCEPT ![n] = @ \cup {target}]

\* --------------------------- InstanceManager / ReductionManager::send_manager
\* the targets a node is asked to send the manager to: another node that
\* is not the owner (the owner created the manager)
SendTargets(n) == Remotes \ {n}

\* a send_manager that updates the known nodes before it sends
send_manager_pack_early(n, target) ==
  /\ Running(n)
  /\ pc[n] = "idle"
  /\ target \in SendTargets(n)
  /\ target \notin remote_instances[n]
  /\ send_calls < MaxSends
  /\ send_calls' = send_calls + 1
  /\ rez' = [rez EXCEPT ![n] =
               ManagerMessage(kind = "instance" /\ pack_layout_description(n, target)[1])]
  /\ send_target' = [send_target EXCEPT ![n] = target]
  /\ pc' = [pc EXCEPT ![n] = "packed"]
  /\ known_nodes' = IF kind = "instance"
                    THEN update_known_nodes(known_nodes, n, target)
                    ELSE known_nodes
  /\ last' = Quiet
  /\ UNCHANGED <<builderVars, queryVars, layoutVars, kind, own_domain,
                 mgr, gc_references, valid_references,
                 resource_references, heldVars, remote_instances,
                 layout_refs, layouts, chan, instance_destroys, perform_deletions,
                 mmVars, manager_sent, manager_received, fault>>

\* has_remote_instance check and serialization of the manager
send_manager_pack(n, target) ==
  /\ Running(n)
  /\ pc[n] = "idle"
  /\ target \in SendTargets(n)
  /\ target \notin remote_instances[n]
  /\ send_calls < MaxSends
  /\ send_calls' = send_calls + 1
  /\ rez' = [rez EXCEPT ![n] =
               ManagerMessage(kind = "instance" /\ pack_layout_description(n, target)[1])]
  /\ send_target' = [send_target EXCEPT ![n] = target]
  /\ pc' = [pc EXCEPT ![n] = "packed"]
  /\ last' = Quiet
  /\ UNCHANGED <<builderVars, queryVars, layoutVars, kind, own_domain,
                 mgr, gc_references, valid_references,
                 resource_references, heldVars, remote_instances, known_nodes,
                 layout_refs, layouts, chan, instance_destroys, perform_deletions,
                 mmVars, manager_sent,
                 manager_received, fault>>

\* runtime->send_instance_manager / send_reduction_manager
send_manager_send(n) ==
  /\ ~fault
  /\ pc[n] = "packed"
  /\ Len(chan[n][send_target[n]]) < MaxInFlight
  /\ chan' = [chan EXCEPT ![n][send_target[n]] = Append(@, rez[n])]
  /\ manager_sent' = manager_sent \cup {<<n, send_target[n]>>}
  /\ pc' = [pc EXCEPT ![n] = "sent"]
  /\ last' = Quiet
  /\ UNCHANGED <<builderVars, queryVars, layoutVars, kind, own_domain,
                 mgr, gc_references, valid_references,
                 resource_references, heldVars, remote_instances, known_nodes,
                 layout_refs, layouts, send_target, rez, send_calls,
                 instance_destroys, perform_deletions,
                 mmVars, manager_received, fault>>

\* update_remote_instances, then (instance managers) update_known_nodes
send_manager_update(n) ==
  /\ ~fault
  /\ pc[n] = "sent"
  /\ remote_instances' = update_remote_instances(remote_instances, n, send_target[n])
  /\ known_nodes' = IF kind = "instance"
                    THEN update_known_nodes(known_nodes, n, send_target[n])
                    ELSE known_nodes
  /\ pc' = [pc EXCEPT ![n] = "idle"]
  /\ last' = Quiet
  /\ UNCHANGED <<builderVars, queryVars, layoutVars, kind, own_domain,
                 mgr, gc_references, valid_references,
                 resource_references, heldVars, layout_refs, layouts, chan, send_target,
                 rez, send_calls, manager_sent, instance_destroys, perform_deletions, mmVars,
                 manager_received, fault>>

\* send_manager as one step of the calling thread
send_manager(n, target) ==
  /\ Running(n)
  /\ pc[n] = "idle"
  /\ target \in SendTargets(n)
  /\ target \notin remote_instances[n]
  /\ send_calls < MaxSends
  /\ send_calls' = send_calls + 1
  /\ Len(chan[n][target]) < MaxInFlight
  /\ chan' = [chan EXCEPT ![n][target] =
                Append(@, ManagerMessage(kind = "instance"
                                         /\ pack_layout_description(n, target)[1]))]
  /\ manager_sent' = manager_sent \cup {<<n, target>>}
  /\ remote_instances' = update_remote_instances(remote_instances, n, target)
  /\ known_nodes' = IF kind = "instance"
                    THEN update_known_nodes(known_nodes, n, target)
                    ELSE known_nodes
  /\ last' = Quiet
  /\ UNCHANGED <<builderVars, queryVars, layoutVars, kind, own_domain,
                 mgr, gc_references, valid_references,
                 resource_references, heldVars, layout_refs, layouts, pc, send_target,
                 rez, instance_destroys, perform_deletions, mmVars, manager_received, fault>>

\* ------------------------------------------------- handle_send_manager
\* RegionNode::register_physical_manager: fails when a manager with the
\* distributed id is already registered on the node
register_physical_manager(n) == mgr[n] # "live"

\* the constructor of a non-owner manager object
remote_constructor ==
  [calls |-> <<"legion_new", "register_remote_instance", "add_base_resource_ref">>
             \o (IF kind = "instance" THEN <<"layout.add_reference">> ELSE <<>>),
   sends |-> <<>>]

\* the receiver drops the tentative copy it could not register
instance_drop_tentative(n) ==
  Then([calls |-> <<"remove_base_resource_ref">>, sends |-> <<>>],
       delete_physical_manager(n, FALSE))

reduction_drop_tentative(n) == delete_physical_manager(n, FALSE)

\* the manager message at the head of the channel from s to n
ManagerArrives(s, n) ==
  /\ ~fault
  /\ chan[s][n] # <<>>
  /\ Head(chan[s][n]).type = "manager"

\* a registration that does not record the sender
RegisterProxy_forgets(n, s) ==
  /\ mgr' = [mgr EXCEPT ![n] = "live"]
  /\ resource_references' = [resource_references EXCEPT ![n] = 1]
  /\ remote_instances' = [remote_instances EXCEPT ![n] = {}]

\* the received manager is registered on node n as sent by s
RegisterProxy(n, s) ==
  /\ mgr' = [mgr EXCEPT ![n] = "live"]
  /\ resource_references' = [resource_references EXCEPT ![n] = 1]
  /\ remote_instances' = update_remote_instances(
                           [remote_instances EXCEPT ![n] = {}], n, s)

\* FieldSpaceNode::find_layout_description: the node's layout, if it has one
find_layout_description(n) == layout_refs[n] > 0

\* LayoutDescription::handle_unpack_layout_description: a layout the sender
\* says we have is looked up, any other is created from the constraints
handle_unpack_layout_description(has_local) ==
  [calls |-> <<"handle_unpack_layout_description">>
             \o (IF has_local THEN <<"find_layout_description">>
                 ELSE <<"create_layout_description">>),
   sends |-> <<>>]

\* the references the tentative copy leaves on its layout when it is dropped
TentativeLayoutRefs(n) ==
  Count(remote_constructor.calls, "layout.add_reference")
    - Count(instance_drop_tentative(n).calls, "layout.remove_reference")

\* InstanceManager::handle_send_manager on node n for a message of s
instance_handle_send_manager(n, s) ==
  /\ ManagerArrives(s, n)
  /\ kind = "instance"
  /\ chan' = [chan EXCEPT ![s][n] = Tail(@)]
  /\ manager_received' = manager_received \cup {<<s, n>>}
  /\ LET m == Head(chan[s][n])
         unpack == handle_unpack_layout_description(m.has_local)
         created == Count(unpack.calls, "create_layout_description")
     IN IF m.has_local /\ ~find_layout_description(n)
        THEN \* result is NULL and update_known_nodes dereferences it
             /\ fault' = TRUE
             /\ last' = [op |-> "handle_send_manager", node |-> n,
                         calls |-> unpack.calls]
             /\ UNCHANGED <<mgr, resource_references, remote_instances,
                            known_nodes, layout_refs, layouts>>
        ELSE /\ known_nodes' = update_known_nodes(known_nodes, n, s)
             /\ fault' = fault
             /\ IF register_physical_manager(n)
                THEN /\ RegisterProxy(n, s)
                     /\ layout_refs' = [layout_refs EXCEPT ![n] = @ + 1]
                     /\ layouts' = [layouts EXCEPT ![n] = @ + created]
                     /\ last' = [op |-> "handle_send_manager", node |-> n,
                                 calls |-> unpack.calls
                                           \o remote_constructor.calls
                                           \o <<"register_with_runtime">>]
                ELSE \* the copy is dropped: a layout created for it goes with
                     \* its last reference, a layout found keeps its other ones
                     /\ layout_refs' =
                          IF created = 0
                          THEN [layout_refs EXCEPT ![n] = @ + TentativeLayoutRefs(n)]
                          ELSE layout_refs
                     /\ layouts' =
                          IF created > 0 /\ TentativeLayoutRefs(n) > 0
                          THEN [layouts EXCEPT ![n] = @ + created]
                          ELSE layouts
                     /\ last' = [op |-> "handle_send_manager", node |-> n,
                                 calls |-> unpack.calls
                                           \o remote_constructor.calls
                                           \o instance_drop_tentative(n).calls]
                     /\ UNCHANGED <<mgr, resource_references, remote_instances>>
  /\ UNCHANGED <<builderVars, queryVars, layoutVars, kind, own_domain,
                 gc_references, valid_references, heldVars, sendVars,
                 instance_destroys, perform_deletions, mmVars>>

\* ReductionManager::handle_send_manager on node n for a message of s
reduction_handle_send_manager(n, s) ==
  /\ ManagerArrives(s, n)
  /\ kind \in {"fold", "list"}
  /\ chan' = [chan EXCEPT ![s][n] = Tail(@)]
  /\ manager_received' = manager_received \cup {<<s, n>>}
  /\ IF register_physical_manager(n)
     THEN /\ RegisterProxy(n, s)
          /\ last' = [op |-> "handle_send_manager", node |-> n,
                      calls |-> remote_constructor.calls
                                \o <<"register_with_runtime">>]
     ELSE /\ last' = [op |-> "handle_send_manager", node |-> n,
                      calls |-> remote_constructor.calls
                                \o reduction_drop_tentative(n).calls]
          /\ UNCHANGED <<mgr, resource_references, remote_instances>>
  /\ UNCHANGED <<builderVars, queryVars, layoutVars, kind, own_domain,
                 gc_references, valid_references, heldVars, known_nodes,
                 layout_refs, layouts, sendVars, instance_destroys, perform_deletions,
                 mmVars, fault>>

\* ------------------------------------------------------------------ Next
\* the reference-counting protocol: the owner hands the manager out, local
\* users acquire and release, deltas travel to the owner
Next ==
  \/ add_base_resource_ref(Owner)
  \/ remove_base_resource_ref(Owner)
  \/ \E n \in Nodes : add_base_gc_ref(n)
  \/ \E n \in Nodes : add_base_valid_ref(n)
  \/ \E n \in Nodes : remove_base_valid_ref(n)
  \/ \E n \in Nodes : remove_base_gc_ref(n)
  \/ \E s \in Remotes : handle_remote_update(s)
  \/ \E n \in Remotes : handle_remote_resource_update(n)
  \/ perform_deletion
  \/ \E t \in Remotes : send_manager(Owner, t)
  \/ \E n \in Remotes : \E s \in Nodes : instance_handle_send_manager(n, s)
  \/ \E n \in Remotes : \E s \in Nodes : reduction_handle_send_manager(n, s)

Spec == Init /\ [][Next]_vars

\* the transfer of the manager: every node that has it may send it on, the
\* steps of send_manager interleave, the owner's resource references come
\* and go
NextSend ==
  \/ add_base_resource_ref(Owner)
  \/ remove_base_resource_ref(Owner)
  \/ \E n \in Remotes : handle_remote_resource_update(n)
  \/ \E n \in Nodes : \E t \in Remotes : send_manager_pack(n, t)
  \/ \E n \in Nodes : send_manager_send(n)
  \/ \E n \in Nodes : send_manager_update(n)
  \/ \E n \in Remotes : \E s \in Nodes : instance_handle_send_manager(n, s)
  \/ \E n \in Remotes : \E s \in Nodes : reduction_handle_send_manager(n, s)

SpecSend == Init /\ [][NextSend]_vars

\* ------------------------------------------------ the layout engine
\* the managers stay as constructed while the layout is exercised
managerVars == <<kind, own_domain, mgr, gc_references, valid_references,
                 resource_references, held_gc, held_valid, held_resource,
                 remote_instances, layout_refs, layouts, chan, pc, send_target,
                 rez, instance_destroys, perform_deletions, send_calls,
                 mm_active, mm_valid, mm_error, collectable, manager_sent,
                 manager_received, fault, last>>

InstanceManagerAtRest ==
  /\ kind = "instance"
  /\ own_domain = FALSE
  /\ InitManagers
  /\ BuilderAtRest

\* what InstanceManager::send_manager serializes before the layout
send_manager_header ==
  <<"did", "owner_space", "memory", "instance", "instance_domain",
    "region_handle", "use_event", "instance_flags">>

\* send_manager up to and including layout->pack_layout_description
pack_layout(target) ==
  /\ layout_error = "none"
  /\ rez_layout' = [target |-> target,
                    items |-> send_manager_header
                                \o pack_layout_description(Owner, target)]
  /\ UNCHANGED <<builderVars, queryVars, managerVars, known_nodes,
                 debug_high_level, threads, allocated_fields,
                 field_indexes, field_infos, comp_cache, fields, call_log,
                 layout_error, copy_mask, compressed, compress_ran>>

\* layout->update_known_nodes(target), after a send or a receive
layout_update_known_nodes(target) ==
  /\ layout_error = "none"
  /\ known_nodes' = update_known_nodes(known_nodes, Owner, target)
  /\ UNCHANGED <<builderVars, queryVars, managerVars, layoutVars>>

InitPack ==
  /\ InstanceManagerAtRest
  /\ debug_high_level = FALSE
  /\ copy_mask = {}
  /\ \E mask \in FieldMasks \ {{}} : LayoutsOf(mask)

NextPack ==
  \/ \E t \in Remotes : pack_layout(t)
  \/ \E t \in Remotes : layout_update_known_nodes(t)

SpecPack == InitPack /\ [][NextPack]_vars

\* compress_mask<LOG2MAX>(x, m) on x = copy_mask, m = allocated_fields
compress ==
  /\ ~compress_ran
  /\ compressed' = compress_mask(copy_mask, allocated_fields)
  /\ compress_ran' = TRUE
  /\ UNCHANGED <<builderVars, queryVars, managerVars, known_nodes,
                 debug_high_level, threads, allocated_fields,
                 field_indexes, field_infos, comp_cache, fields, call_log,
                 layout_error, rez_layout, copy_mask>>

InitCompress ==
  /\ InstanceManagerAtRest
  /\ debug_high_level = FALSE
  /\ copy_mask \in FieldMasks
  /\ \E mask \in FieldMasks : LayoutsOf(mask)

NextCompress == compress

SpecCompress == InitCompress /\ [][NextCompress]_vars

\* the instances of the two layouts of a copy
InstanceOf(L) == IF L = "src" THEN "I_src" ELSE "I_dst"

\* the masks callers hand to compute_copy_offsets
CopyMasks == {m \in FieldMasks : Cardinality(m) <= MaxCopyFields}

\* a copy computes the offsets of mask on its source layout, then on its
\* destination layout; a failed assertion ends the process in between
copy_offsets(mask) ==
  /\ layout_error = "none"
  /\ Len(call_log) < MaxCalls
  /\ LET s == compute_copy_offsets("src", mask, InstanceOf("src"))
         d == compute_copy_offsets("dst", mask, InstanceOf("dst"))
         r == [L \in LayoutNames |->
                 IF L = "src" THEN s
                 ELSE IF s.error # "none"
                      THEN [comp_cache |-> comp_cache[L], found_in_cache |-> FALSE,
                            error |-> s.error, appended |-> <<>>]
                      ELSE d]
     IN /\ comp_cache' = [L \in LayoutNames |-> r[L].comp_cache]
        /\ fields' = [L \in LayoutNames |-> fields[L] \o r[L].appended]
        /\ layout_error' = r["dst"].error
        /\ call_log' = Append(call_log,
             [op |-> "mask", mask |-> mask, fid |-> 0,
              completed |-> r["dst"].error = "none",
              found_in_cache |-> [L \in LayoutNames |-> r[L].found_in_cache],
              added |-> [L \in LayoutNames |->
                           Len(r[L].comp_cache[get_hash_key(mask)])
                             - Len(comp_cache[L][get_hash_key(mask)])],
              first |-> [L \in LayoutNames |-> Len(fields[L])],
              count |-> [L \in LayoutNames |-> Len(r[L].appended)]])
  /\ UNCHANGED <<builderVars, queryVars, managerVars, known_nodes,
                 debug_high_level, threads, allocated_fields,
                 field_indexes, field_infos, rez_layout, copy_mask,
                 compressed, compress_ran>>

\* what field_infos[finder->second] reads when finder is the end of the map:
\* nothing the program defines, an info of the layout or bytes that are none
NoInfo == [field_id |-> 0, offset |-> 0, size |-> 0, serdez_id |-> 0, inst |-> NO_INST]
UndefinedReads ==
  {field_infos["src"][i] : i \in 1..Len(field_infos["src"])} \cup {NoInfo}

\* the outcomes of the dereference: the process crashes or a record is read
UndefinedOutcomes ==
  {[crash |-> TRUE, read |-> NoInfo]}
    \cup {[crash |-> FALSE, read |-> r] : r \in UndefinedReads}

\* LayoutDescription::compute_copy_offsets(fid, instance, fields) on the
\* source layout: outcome is what the call does for a field the layout
\* does not have ("assert" in a DEBUG_HIGH_LEVEL build; without the
\* assertion the end iterator is dereferenced: a crash or any record)
compute_field_offsets(fid, outcome) ==
  LET finder == fid \in DOMAIN field_indexes["src"]
  IN IF finder
     THEN [error |-> "none",
           appended |-> <<[field_infos["src"][field_indexes["src"][fid] + 1]
                             EXCEPT !.inst = InstanceOf("src")]>>]
     ELSE IF debug_high_level THEN [error |-> "assert", appended |-> <<>>]
     ELSE IF outcome.crash THEN [error |-> "crash", appended |-> <<>>]
     ELSE [error |-> "none",
           appended |-> <<[outcome.read EXCEPT !.inst = InstanceOf("src")]>>]

field_offsets(fid) ==
  /\ layout_error = "none"
  /\ Len(call_log) < MaxCalls
  /\ \E outcome \in UndefinedOutcomes :
       LET r == compute_field_offsets(fid, outcome)
       IN /\ fields' = [fields EXCEPT !["src"] = @ \o r.appended]
          /\ layout_error' = r.error
          /\ call_log' = Append(call_log,
               [op |-> "fid", mask |-> {}, fid |-> fid,
                completed |-> r.error = "none",
                found_in_cache |-> [L \in LayoutNames |-> FALSE],
                added |-> [L \in LayoutNames |-> 0],
                first |-> [L \in LayoutNames |-> Len(fields[L])],
                count |-> [L \in LayoutNames |->
                             IF L = "src" THEN Len(r.appended) ELSE 0]])
  /\ UNCHANGED <<builderVars, queryVars, managerVars, known_nodes,
                 debug_high_level, threads, allocated_fields,
                 field_indexes, field_infos, comp_cache, rez_layout, copy_mask,
                 compressed, compress_ran>>

InitLayout ==
  /\ InstanceManagerAtRest
  /\ debug_high_level \in BOOLEAN
  /\ copy_mask = {}
  /\ \E mask \in FieldMasks :
       /\ Cardinality(mask) \in 1..MaxLayoutFields
       /\ LayoutsOf(mask)

NextLayout ==
  \/ \E mask \in CopyMasks : copy_offsets(mask)
  \/ \E fid \in FieldIDs : field_offsets(fid)

SpecLayout == InitLayout /\ [][NextLayout]_vars

\* ------------- compute_copy_offsets(mask) by several threads at a time
\* the pair a thread saves in the cache, the mask for the compressed mask
cache_entry_uncompressed(mask, result) == <<mask, mask>>

\* the pair a thread saves in the cache
cache_entry(mask, result) == <<mask, result>>

\* a thread enters compute_copy_offsets on the source layout
thread_call(t, mask) ==
  /\ layout_error = "none"
  /\ threads[t].pc = "idle"
  /\ threads' = [threads EXCEPT ![t] = [@ EXCEPT !.pc = "lookup", !.mask = mask]]
  /\ UNCHANGED <<builderVars, queryVars, managerVars, known_nodes,
                 debug_high_level, allocated_fields, field_indexes,
                 field_infos, comp_cache, fields, call_log, layout_error,
                 rez_layout, copy_mask, compressed, compress_ran>>

\* the search of the cache under the shared lock; a thread that finds
\* nothing compresses the mask by itself, with no lock held
thread_lookup(t) ==
  /\ layout_error = "none"
  /\ threads[t].pc = "lookup"
  /\ LET bucket == comp_cache["src"][get_hash_key(threads[t].mask)]
         finder == cache_find(bucket, threads[t].mask)
     IN threads' = [threads EXCEPT ![t] =
          IF finder # {}
          THEN [@ EXCEPT !.pc = "append", !.found_in_cache = TRUE,
                         !.compressed =
                            bucket[CHOOSE i \in finder : \A j \in finder : i <= j][2]]
          ELSE [@ EXCEPT !.pc = "insert", !.found_in_cache = FALSE,
                         !.compressed =
                            compress_mask(threads[t].mask, allocated_fields)]]
  /\ UNCHANGED <<builderVars, queryVars, managerVars, known_nodes,
                 debug_high_level, allocated_fields, field_indexes,
                 field_infos, comp_cache, fields, call_log, layout_error,
                 rez_layout, copy_mask, compressed, compress_ran>>

\* the push_back of the result under the exclusive lock
thread_insert(t) ==
  /\ layout_error = "none"
  /\ threads[t].pc = "insert"
  /\ comp_cache' = [comp_cache EXCEPT !["src"][get_hash_key(threads[t].mask)] =
                      Append(@, cache_entry(threads[t].mask, threads[t].compressed))]
  /\ threads' = [threads EXCEPT ![t].pc = "append"]
  /\ UNCHANGED <<builderVars, queryVars, managerVars, known_nodes,
                 debug_high_level, allocated_fields, field_indexes,
                 field_infos, fields, call_log, layout_error,
                 rez_layout, copy_mask, compressed, compress_ran>>

\* the records of the set bits of the compressed mask, appended to the
\* vector of the caller; a DEBUG_HIGH_LEVEL build checks the popcounts first
thread_append(t) ==
  /\ layout_error = "none"
  /\ threads[t].pc = "append"
  /\ LET pop == pop_count(threads[t].compressed)
         failed == debug_high_level /\ pop # pop_count(threads[t].mask)
     IN /\ layout_error' = IF failed THEN "assert" ELSE "none"
        /\ threads' = [threads EXCEPT ![t] =
             IF failed THEN [@ EXCEPT !.pc = "aborted"]
             ELSE [@ EXCEPT !.pc = "done",
                            !.fields = @ \o
                              [idx \in 1..pop |->
                                 [field_infos["src"][
                                    find_index_set(threads[t].compressed, idx - 1) + 1]
                                  EXCEPT !.inst = InstanceOf("src")]]]]
  /\ UNCHANGED <<builderVars, queryVars, managerVars, known_nodes,
                 debug_high_level, allocated_fields, field_indexes,
                 field_infos, comp_cache, fields, call_log,
                 rez_layout, copy_mask, compressed, compress_ran>>

\* the bits a layout or a copy mask of this scenario may have
LowBits == {b \in Bits : b <= MaxLayoutFields}

\* a layout of one to MaxLayoutFields of the low fields, which every thread
\* is about to ask for the offsets of one mask, copy_mask
InitThreads ==
  /\ InstanceManagerAtRest
  /\ debug_high_level \in BOOLEAN
  /\ copy_mask \in {m \in CopyMasks : m \subseteq LowBits}
  /\ \E mask \in FieldMasks :
       /\ mask \subseteq LowBits
       /\ Cardinality(mask) \in 1..MaxLayoutFields
       /\ LayoutsOf(mask)

NextThreads ==
  \/ \E t \in Threads : thread_call(t, copy_mask)
  \/ \E t \in Threads : thread_lookup(t)
  \/ \E t \in Threads : thread_insert(t)
  \/ \E t \in Threads : thread_append(t)

SpecThreads == InitThreads /\ [][NextThreads]_vars

\* ------------------------------------------------ the instance builder
\* the constructors of the manager of kind k the builder makes on the local
\* node
owner_constructor(k) ==
  [calls |-> <<"legion_new">>
             \o (IF k = "instance" THEN <<"layout.add_reference">> ELSE <<>>)
             \o <<"register_with_runtime", "register_physical_manager">>,
   sends |-> <<>>]

\* the switch of create_physical_instance on the specialization: the kind of
\* manager it makes and the logical field of a reduction manager, or how it
\* ends without one ("undefined": it read the first of no field sizes)
specialized_manager(k, field_sizes, debug) ==
  CASE k = "NORMAL_SPECIALIZE" ->
         [kind |-> "instance", logical_field |-> 0, error |-> "none"]
    [] k = "REDUCTION_FOLD_SPECIALIZE" ->
         IF debug /\ Len(field_sizes) # 1
         THEN [kind |-> "none", logical_field |-> 0, error |-> "assert"]
         ELSE IF field_sizes = <<>>
         THEN [kind |-> "fold", logical_field |-> 0, error |-> "undefined"]
         ELSE [kind |-> "fold", logical_field |-> field_sizes[1][1],
               error |-> "none"]
    [] OTHER ->
         [kind |-> "none", logical_field |-> 0, error |-> "assert"]

\* a call that takes its distributed id before it looks at the instance
ids_taken_early(error, exists) == IF error = "none" THEN 1 ELSE 0

\* the distributed ids a call takes: one, once it has an instance
ids_taken(error, exists) == IF error = "none" /\ exists THEN 1 ELSE 0

\* builder_pc after a call that ended as said
pc_after(ended) ==
  CASE ended = "none" -> "built"
    [] ended = "absent" -> "failed"
    [] ended = "assert" -> "aborted"
    [] OTHER -> "crashed"

\* InstanceBuilder::create_physical_instance: initialize unless valid, ask
\* the allocator for the instance, and make the manager if there is one
create_physical_instance(exists, undefined) ==
  /\ builder_pc = "fresh"
  /\ LET init == IF builder_valid
                 THEN [ancestor |-> ancestor,
                       instance_domain |-> instance_domain,
                       own_domain |-> builder_own_domain, created |-> 0,
                       block_size |-> block_size, log |-> <<>>,
                       error |-> "none"]
                 ELSE initialize(undefined)
         made == specialized_manager(specialized,
                   compute_create_offsets(field_constraint).field_sizes,
                   debug_high_level)
         ended == IF init.error # "none" THEN init.error
                  ELSE IF ~exists THEN "absent"
                  ELSE IF made.error = "undefined"
                  THEN IF undefined.crash THEN "crash" ELSE "none"
                  ELSE made.error
         calls == owner_constructor(made.kind).calls
     IN /\ builder_pc' = pc_after(ended)
        /\ ancestor' = init.ancestor
        /\ instance_domain' = init.instance_domain
        /\ builder_own_domain' = init.own_domain
        /\ block_size' = init.block_size
        /\ index_spaces' = index_spaces + init.created
        /\ log_run' = log_run \o init.log
        /\ create_requests' =
             create_requests + (IF init.error = "none" THEN 1 ELSE 0)
        /\ distributed_ids' = distributed_ids + ids_taken(init.error, exists)
        /\ IF ended = "none"
           THEN /\ mgr' = [mgr EXCEPT ![Owner] = "live"]
                /\ kind' = made.kind
                /\ own_domain' = init.own_domain
                /\ logical_field' = IF made.error = "undefined"
                                    THEN undefined.field
                                    ELSE made.logical_field
                /\ region_node' = init.ancestor
                /\ layout_refs' = [layout_refs EXCEPT ![Owner] =
                     @ + Count(calls, "layout.add_reference")]
                /\ layouts' = [layouts EXCEPT ![Owner] =
                     Count(calls, "layout.add_reference")]
                /\ last' = [op |-> "create_physical_instance", node |-> Owner,
                            calls |-> calls]
           ELSE /\ last' = Quiet
                /\ UNCHANGED <<mgr, kind, own_domain, logical_field,
                               region_node, layout_refs, layouts>>
  /\ UNCHANGED <<layoutVars, regions, region_nodes, specialized, ordering,
                 field_constraint, builder_valid, needed_sizes, top_views, ptr_space, sizeof_rhs, reduce_fields, copies,
                 asked, query, gc_references, valid_references, resource_references,
                 heldVars, remote_instances, known_nodes, chan, sendVars,
                 instance_destroys, perform_deletions, mmVars,
                 manager_received, fault>>

\* the loop of compute_needed_size over field_sizes
RECURSIVE total_field_bytes(_, _)
total_field_bytes(field_sizes, idx) ==
  IF idx > Len(field_sizes) THEN 0
  ELSE field_sizes[idx][2] + total_field_bytes(field_sizes, idx + 1)

\* InstanceBuilder::compute_needed_size: initialize unless valid, then the
\* bytes of one element of every field times the volume of the instance
\* domain; nothing in the builder sets valid
compute_needed_size(undefined) ==
  /\ builder_pc = "fresh"
  /\ Len(needed_sizes) < MaxCalls
  /\ LET init == IF builder_valid
                 THEN [ancestor |-> ancestor,
                       instance_domain |-> instance_domain,
                       own_domain |-> builder_own_domain, created |-> 0,
                       block_size |-> block_size, log |-> <<>>,
                       error |-> "none"]
                 ELSE initialize(undefined)
     IN /\ builder_pc' = IF init.error = "none" THEN builder_pc
                         ELSE pc_after(init.error)
        /\ ancestor' = init.ancestor
        /\ instance_domain' = init.instance_domain
        /\ builder_own_domain' = init.own_domain
        /\ block_size' = init.block_size
        /\ index_spaces' = index_spaces + init.created
        /\ log_run' = log_run \o init.log
        /\ needed_sizes' =
             IF init.error # "none" THEN needed_sizes
             ELSE Append(needed_sizes,
                    total_field_bytes(
                      compute_create_offsets(field_constraint).field_sizes, 1)
                      * get_volume(init.instance_domain))
  /\ UNCHANGED <<layoutVars, queryVars, managerVars, known_nodes, regions,
                 region_nodes, specialized, ordering, field_constraint,
                 builder_valid, create_requests, distributed_ids>>

\* no manager was made yet, on any node
NothingBuilt ==
  /\ kind = "none"
  /\ own_domain = FALSE
  /\ mgr = [n \in Nodes |-> "none"]
  /\ gc_references = [n \in Nodes |-> 0]
  /\ valid_references = [n \in Nodes |-> 0]
  /\ resource_references = [n \in Nodes |-> 0]
  /\ held_gc = [n \in Nodes |-> 0]
  /\ held_valid = [n \in Nodes |-> 0]
  /\ held_resource = [n \in Nodes |-> 0]
  /\ remote_instances = [n \in Nodes |-> {}]
  /\ known_nodes = [n \in Nodes |-> {}]
  /\ layout_refs = [n \in Nodes |-> 0]
  /\ layouts = [n \in Nodes |-> 0]
  /\ chan = EmptyChannels
  /\ pc = [n \in Nodes |-> "idle"]
  /\ send_target = [n \in Nodes |-> n]
  /\ rez = [n \in Nodes |-> NoMessage]
  /\ instance_destroys = 0
  /\ perform_deletions = 0
  /\ send_calls = 0
  /\ mm_active = [n \in Nodes |-> FALSE]
  /\ mm_valid = [n \in Nodes |-> FALSE]
  /\ mm_error = [n \in Nodes |-> "none"]
  /\ collectable = FALSE
  /\ manager_sent = {}
  /\ manager_received = {}
  /\ fault = FALSE
  /\ last = Quiet
  /\ copy_mask = {}
  /\ LayoutsOf({0})
  /\ logical_field = 0
  /\ region_node = NULL
  /\ top_views = [c \in Contexts |-> NoView]
  /\ ptr_space = NO_DOMAIN
  /\ sizeof_rhs = 1
  /\ asked = <<>>
  /\ query = NoQuery
  /\ reduce_fields = <<>>
  /\ copies = <<>>

\* InstanceBuilder starts with own_domain and valid unset and has called
\* nothing
FreshBuilder ==
  /\ instance_domain = NO_DOMAIN
  /\ builder_own_domain = FALSE
  /\ builder_valid = FALSE
  /\ builder_pc = "fresh"
  /\ index_spaces = 0
  /\ ancestor = NULL
  /\ block_size = 0
  /\ create_requests = 0
  /\ distributed_ids = 0
  /\ log_run = <<>>
  /\ needed_sizes = <<>>

\* the subregions of the root of the first tree, taken in turn for n regions
Subregions(n) == [i \in 1..n |-> <<1, ((i - 1) % Fanout) + 1>>]

\* the field sets of a build: up to MaxBuildFields fields, none twice
FieldSets ==
  {fs \in UNION {[1..n -> FieldIDs] : n \in 0..MaxBuildFields} :
     \A i, j \in 1..Len(fs) : i # j => fs[i] # fs[j]}

\* the orderings of a build
Orderings == UNION {[1..n -> DimensionKinds] : n \in 0..MaxOrdering}

\* a builder for one to MaxRegions regions of one index tree, by a release
\* build: any domains, a normal or a fold instance of one field
InitBuilder ==
  /\ NothingBuilt
  /\ FreshBuilder
  /\ debug_high_level = FALSE
  /\ \E dim \in 0..MaxDim : \E n \in 1..MaxRegions :
       /\ regions \in [1..n -> RegionDomains(dim)]
       /\ region_nodes = Subregions(n)
  /\ specialized \in {"NORMAL_SPECIALIZE", "REDUCTION_FOLD_SPECIALIZE"}
  /\ ordering = <<>>
  /\ field_constraint = <<FieldAt(0)>>

\* the build, then the references of the users of the manager it made
NextBuilder ==
  \/ \E exists \in BOOLEAN : \E undefined \in UndefinedSteps :
       create_physical_instance(exists, undefined)
  \/ add_base_resource_ref(Owner)
  \/ remove_base_resource_ref(Owner)

SpecBuilder == InitBuilder /\ [][NextBuilder]_vars

\* a builder for regions that lie anywhere in the forest, by any build
InitAncestor ==
  /\ NothingBuilt
  /\ FreshBuilder
  /\ debug_high_level \in BOOLEAN
  /\ \E n \in 1..MaxRegions :
       /\ regions = [i \in 1..n |-> Rect(<<0>>, <<MaxCoord>>)]
       /\ region_nodes \in [1..n -> RegionNodes]
  /\ specialized = "NORMAL_SPECIALIZE"
  /\ ordering = <<>>
  /\ field_constraint = <<FieldAt(0)>>

SpecAncestor == InitAncestor /\ [][NextBuilder]_vars

\* a normal instance over regions of dimension 0 or 1, under any ordering
InitOrdering ==
  /\ NothingBuilt
  /\ FreshBuilder
  /\ debug_high_level \in BOOLEAN
  /\ \E dim \in 0..1 : \E n \in 1..MaxRegions :
       /\ regions \in [1..n -> RegionDomains(dim)]
       /\ region_nodes = Subregions(n)
  /\ specialized = "NORMAL_SPECIALIZE"
  /\ ordering \in Orderings
  /\ field_constraint = <<FieldAt(0)>>

SpecOrdering == InitOrdering /\ [][NextBuilder]_vars

\* a build of any specialization over any field set, by any build, for
\* regions of dimension 0 or 1 that all have the same domain
InitSpecialize ==
  /\ NothingBuilt
  /\ FreshBuilder
  /\ debug_high_level \in BOOLEAN
  /\ \E dim \in 0..1 : \E n \in 1..MaxRegions : \E d \in RegionDomains(dim) :
       /\ regions = [i \in 1..n |-> d]
       /\ region_nodes = Subregions(n)
  /\ specialized \in Specializations
  /\ ordering = <<>>
  /\ field_constraint \in FieldSets

SpecSpecialize == InitSpecialize /\ [][NextBuilder]_vars

\* ------------------------------------------- the top views of a manager
\* the manager of the owner node answers as long as no query ended the
\* process
Answering == Running(Owner) /\ query.ended = "none"

\* what no query changes
restVars == <<builderVars, layoutVars, managerVars, known_nodes>>

\* the contexts that hold view as top view, in the order of the map
holders(tv, view) == SetToSeq({c \in Contexts : tv[c] = view})

\* an erase that takes the first entry of the map, whatever its view
erase_top_view_first(tv, view) ==
  LET held == SetToSeq({c \in Contexts : tv[c] # NoView})
  IN IF held = <<>> THEN [top_views |-> tv, ended |-> "assert"]
     ELSE [top_views |-> [tv EXCEPT ![held[1]] = NoView], ended |-> "none"]

\* the loop of unregister_logical_top_view: the first entry of the map whose
\* view is the one given is erased; no such entry fails the assertion
erase_top_view(tv, view) ==
  IF holders(tv, view) = <<>> THEN [top_views |-> tv, ended |-> "assert"]
  ELSE [top_views |-> [tv EXCEPT ![holders(tv, view)[1]] = NoView],
        ended |-> "none"]

\* PhysicalManager::register_logical_top_view
register_logical_top_view(context_uid, top_view) ==
  /\ Answering
  /\ LET taken == debug_high_level /\ top_views[context_uid] # NoView
     IN /\ top_views' = IF taken THEN top_views
                        ELSE [top_views EXCEPT ![context_uid] = top_view]
        /\ query' = [op |-> "register_logical_top_view",
                     context |-> context_uid, view |-> top_view,
                     ended |-> IF taken THEN "assert" ELSE "none"]
  /\ UNCHANGED <<restVars, logical_field, region_node, ptr_space, sizeof_rhs, reduce_fields, copies,
                 asked>>

\* PhysicalManager::unregister_logical_top_view
unregister_logical_top_view(top_view) ==
  /\ Answering
  /\ top_views' = erase_top_view(top_views, top_view).top_views
  /\ query' = [op |-> "unregister_logical_top_view", context |-> 0,
               view |-> top_view,
               ended |-> erase_top_view(top_views, top_view).ended]
  /\ UNCHANGED <<restVars, logical_field, region_node, ptr_space, sizeof_rhs, reduce_fields, copies,
                 asked>>

\* PhysicalManager::find_context_uid: the first context that holds the view
find_context_uid(top_view) ==
  /\ Answering
  /\ query' = [op |-> "find_context_uid",
               context |-> IF holders(top_views, top_view) = <<>> THEN 0
                           ELSE holders(top_views, top_view)[1],
               view |-> top_view,
               ended |-> IF holders(top_views, top_view) = <<>> THEN "assert"
                         ELSE "none"]
  /\ UNCHANGED <<restVars, logical_field, region_node, ptr_space, sizeof_rhs, reduce_fields, copies,
                 asked, top_views>>

\* what reading the entry of a context that has none may come to
UndefinedViews(context_uid) ==
  IF top_views[context_uid] = NoView /\ ~debug_high_level
  THEN [crash : BOOLEAN, view : Views \cup {NoView}]
  ELSE {[crash |-> FALSE, view |-> NoView]}

\* PhysicalManager::find_logical_top_view: the view of the context; a
\* context without view fails the assertion of a DEBUG_HIGH_LEVEL build and
\* reads past the map in any other
find_logical_top_view(context_uid, undefined) ==
  /\ Answering
  /\ query' = [op |-> "find_logical_top_view", context |-> context_uid,
               view |-> IF top_views[context_uid] # NoView
                        THEN top_views[context_uid]
                        ELSE undefined.view,
               ended |-> IF top_views[context_uid] # NoView THEN "none"
                         ELSE IF debug_high_level THEN "assert"
                         ELSE IF undefined.crash THEN "crash" ELSE "none"]
  /\ UNCHANGED <<restVars, logical_field, region_node, ptr_space, sizeof_rhs, reduce_fields, copies,
                 asked, top_views>>

\* a manager of any kind without top views, by any build
InitTopViews ==
  /\ kind \in ManagerKinds
  /\ own_domain = FALSE
  /\ InitManagers
  /\ BuilderAtRest
  /\ debug_high_level \in BOOLEAN
  /\ copy_mask = {}
  /\ LayoutsOf({0})

NextTopViews ==
  \/ \E c \in Contexts : \E v \in Views : register_logical_top_view(c, v)
  \/ \E v \in Views : unregister_logical_top_view(v)
  \/ \E v \in Views : find_context_uid(v)
  \/ \E c \in Contexts : \E u \in UndefinedViews(c) : find_logical_top_view(c, u)

SpecTopViews == InitTopViews /\ [][NextTopViews]_vars

\* --------------------------------------- PhysicalManager::meets_regions
\* Rect<N>::dominates: other lies within our rectangle on every axis
dominates(our_rect, other_rect) ==
  \A a \in Axes(our_rect.dim) :
    our_rect.lo[a] <= other_rect.lo[a] /\ other_rect.hi[a] <= our_rect.hi[a]

\* the loop of meets_regions over the regions idx.. for the manager of
\* region node with instance domain our_domain: "true", "false", or
\* "assert" when an assertion ends the process. The cases of dimension 2
\* and 3 have no break: a region that passes their check runs on into the
\* next case (get_rect<3> of a domain of dimension 2) and into
\* default: assert(false)
RECURSIVE regions_met(_, _, _, _)
regions_met(our_domain, node, rs, idx) ==
  IF idx > Len(rs) THEN "true"
  ELSE IF get_tree_id(rs[idx].node) # get_tree_id(node) THEN "false"
  ELSE IF rs[idx].node = node THEN regions_met(our_domain, node, rs, idx + 1)
  ELSE CASE our_domain.dim = 0 ->
              IF rs[idx].domain.mask \ our_domain.mask # {} THEN "false"
              ELSE regions_met(our_domain, node, rs, idx + 1)
         [] our_domain.dim = 1 ->
              IF ~dominates(our_domain, rs[idx].domain) THEN "false"
              ELSE regions_met(our_domain, node, rs, idx + 1)
         [] our_domain.dim \in {2, 3} ->
              IF ~dominates(our_domain, rs[idx].domain) THEN "false"
              ELSE "assert"
         [] OTHER -> "assert"

\* PhysicalManager::meets_regions for the regions asked about
meets_regions ==
  /\ Answering
  /\ asked # <<>>
  /\ LET met == regions_met(instance_domain, region_node, asked, 1)
     IN query' = [op |-> "meets_regions", result |-> met = "true",
                  ended |-> IF met = "assert" THEN "assert" ELSE "none"]
  /\ UNCHANGED <<restVars, logical_field, region_node, ptr_space, sizeof_rhs, reduce_fields, copies,
                 asked, top_views>>

\* the domains of the regions of a query: rectangles whose least corner has
\* one coordinate on every axis, index spaces of any elements
QueryDomains(dim) ==
  {d \in RegionDomains(dim) : \A a, b \in Axes(dim) : d.lo[a] = d.lo[b]}

\* the region nodes of a query for a manager on node: the node itself, the
\* subregion beside it and the roots of the other trees
QueryNodes(node) == {node, <<1, 2>>} \cup {<<t>> : t \in 2..NumTrees}

\* a manager that was built over one region
BuiltOver(node, domain) ==
  /\ regions = <<domain>>
  /\ region_nodes = <<node>>
  /\ instance_domain = domain
  /\ builder_own_domain = FALSE
  /\ builder_valid = FALSE
  /\ builder_pc = "built"
  /\ index_spaces = 0
  /\ ancestor = node
  /\ specialized = "NORMAL_SPECIALIZE"
  /\ ordering = <<>>
  /\ field_constraint = <<FieldAt(0)>>
  /\ block_size = get_volume(domain)
  /\ create_requests = 1
  /\ distributed_ids = 1
  /\ log_run = <<>>
  /\ needed_sizes = <<>>

\* the manager at rest but for the variables pinned in the conjuncts to come
ManagerBuilt ==
  /\ own_domain = FALSE
  /\ mgr = [n \in Nodes |-> IF is_owner(n) THEN "live" ELSE "none"]
  /\ gc_references = [n \in Nodes |-> 0]
  /\ valid_references = [n \in Nodes |-> 0]
  /\ resource_references = [n \in Nodes |-> 0]
  /\ held_gc = [n \in Nodes |-> 0]
  /\ held_valid = [n \in Nodes |-> 0]
  /\ held_resource = [n \in Nodes |-> 0]
  /\ remote_instances = [n \in Nodes |-> {}]
  /\ known_nodes = [n \in Nodes |-> {}]
  /\ layout_refs = [n \in Nodes |-> IF is_owner(n) /\ kind = "instance" THEN 1 ELSE 0]
  /\ layouts = [n \in Nodes |-> IF is_owner(n) /\ kind = "instance" THEN 1 ELSE 0]
  /\ chan = EmptyChannels
  /\ pc = [n \in Nodes |-> "idle"]
  /\ send_target = [n \in Nodes |-> n]
  /\ rez = [n \in Nodes |-> NoMessage]
  /\ instance_destroys = 0
  /\ perform_deletions = 0
  /\ send_calls = 0
  /\ mm_active = [n \in Nodes |-> FALSE]
  /\ mm_valid = [n \in Nodes |-> FALSE]
  /\ mm_error = [n \in Nodes |-> "none"]
  /\ collectable = FALSE
  /\ manager_sent = {}
  /\ manager_received = {}
  /\ fault = FALSE
  /\ last = Quiet
  /\ debug_high_level = FALSE
  /\ copy_mask = {}
  /\ LayoutsOf({0})
  /\ logical_field = 0
  /\ top_views = [c \in Contexts |-> NoView]
  /\ query = NoQuery
  /\ reduce_fields = <<>>
  /\ copies = <<>>

\* an instance manager of any dimension on the first subregion of the first
\* tree, asked about one to MaxRegions regions; the region of the manager
\* has the domain of the manager
InitMeets ==
  /\ kind = "instance"
  /\ ManagerBuilt
  /\ region_node = <<1, 1>>
  /\ ptr_space = NO_DOMAIN
  /\ sizeof_rhs = 1
  /\ \E dim \in 0..MaxDim : \E our \in QueryDomains(dim) :
       /\ BuiltOver(<<1, 1>>, our)
       /\ \E n \in 1..MaxRegions :
            asked \in [1..n -> {r \in [node : QueryNodes(<<1, 1>>),
                                       domain : QueryDomains(dim)] :
                                  r.node = <<1, 1>> => r.domain = our}]

NextMeets == meets_regions

SpecMeets == InitMeets /\ [][NextMeets]_vars

\* ----------------------- LayoutDescription::get_total_field_size
RECURSIVE sum_of_sizes(_, _)
sum_of_sizes(infos, idx) ==
  IF idx > Len(infos) THEN 0
  ELSE infos[idx].size + sum_of_sizes(infos, idx + 1)

\* the sizes of the field infos of a layout added up
get_total_field_size(infos) == sum_of_sizes(infos, 1)

\* ------------------------------- ReductionManager::get_instance_size
\* sizeof(ptr_t): what a record of a list reduction instance holds before
\* its right-hand side
sizeof_ptr_t == 4

\* ElementMask::get_num_elmts of the valid mask of an index space
get_num_elmts(mask) == Cardinality(mask)

\* ListReductionManager::get_instance_size
list_get_instance_size ==
  IF ptr_space.dim = 0
  THEN sizeof_rhs * get_num_elmts(ptr_space.mask)
  ELSE sizeof_rhs * get_volume(ptr_space)

\* RegionNode::row_source->get_domain_blocking: the domain of a region the
\* build was asked for is the one it was asked with; a region above them
\* has every point of the dimension
row_source_domain(node) ==
  IF \E i \in 1..Len(region_nodes) : region_nodes[i] = node
  THEN regions[CHOOSE i \in 1..Len(region_nodes) : region_nodes[i] = node]
  ELSE IF regions[1].dim = 0 THEN IndexSpace(0..MaxCoord)
  ELSE Rect([a \in Axes(regions[1].dim) |-> 0],
            [a \in Axes(regions[1].dim) |-> MaxCoord])

\* the layout the builder found or made for its instance manager
built_layout ==
  LET created == compute_create_offsets(field_constraint)
  IN LayoutDescription(created.mask, created.mask_index_map, created.serdez,
                       created.field_sizes)

\* InstanceManager::get_instance_size; d is the domain of the region of the
\* manager
instance_get_instance_size(d) ==
  get_total_field_size(built_layout.field_infos) * get_volume(d)

\* FoldReductionManager::get_instance_size; d is the domain of the region
\* of the manager
fold_get_instance_size(d) ==
  IF d.dim = 0
  THEN sizeof_rhs * get_num_elmts(d.mask)
  ELSE sizeof_rhs * get_volume(d)

\* get_instance_size of the manager of the owner node
get_instance_size ==
  /\ Answering
  /\ kind \in ManagerKinds
  /\ query' = [op |-> "get_instance_size",
               size |-> CASE kind = "list" -> list_get_instance_size
                          [] kind = "fold" ->
                               fold_get_instance_size(row_source_domain(region_node))
                          [] OTHER ->
                               instance_get_instance_size(row_source_domain(region_node)),
               ended |-> "none"]
  /\ UNCHANGED <<restVars, logical_field, region_node, ptr_space, sizeof_rhs, reduce_fields, copies,
                 asked, top_views>>

\* a fold or a list reduction manager over a region of any dimension, with a
\* reduction operator of any size; a list manager has a pointer space of
\* dimension 0 or 1
InitSize ==
  /\ kind \in {"fold", "list"}
  /\ ManagerBuilt
  /\ region_node = <<1, 1>>
  /\ asked = <<>>
  /\ sizeof_rhs \in 1..MaxRhs
  /\ IF kind = "list"
     THEN ptr_space \in RegionDomains(0) \cup RegionDomains(1)
     ELSE ptr_space = NO_DOMAIN
  /\ \E dim \in 0..MaxDim : \E d \in RegionDomains(dim) : BuiltOver(<<1, 1>>, d)

NextSize == get_instance_size

SpecSize == InitSize /\ [][NextSize]_vars

\* ------------- ReductionManager::find_field_offsets and issue_reduction
\* the instance of the reduction manager; it exists in every manager the
\* builder made (create_physical_instance returns before it makes a manager
\* of an instance that does not exist), so the DEBUG_HIGH_LEVEL assertions
\* on instance.exists() never fire
reduction_instance == "I_red"

\* Event::NO_EVENT
NO_EVENT == 0

\* a find_field_offsets that answers for the fields of the mask only
find_field_offsets_by_mask(k, reduce_mask) ==
  IF reduce_mask = {} THEN <<>>
  ELSE <<[inst |-> reduction_instance,
          offset |-> IF k = "list" THEN sizeof_ptr_t ELSE 0,
          size |-> sizeof_rhs]>>

\* what find_field_offsets of a manager of kind k pushes back: one record
\* for all the fields, behind the pointer in a list instance
find_field_offsets_records(k, reduce_mask) ==
  <<[inst |-> reduction_instance,
     offset |-> IF k = "list" THEN sizeof_ptr_t ELSE 0,
     size |-> sizeof_rhs]>>

\* ListReductionManager / FoldReductionManager::find_field_offsets
find_field_offsets(reduce_mask) ==
  /\ Answering
  /\ kind \in {"fold", "list"}
  /\ Len(reduce_fields) < MaxCalls
  /\ reduce_fields' = reduce_fields \o find_field_offsets_records(kind, reduce_mask)
  /\ query' = [op |-> "find_field_offsets", mask |-> reduce_mask,
               precise |-> FALSE, event |-> NO_EVENT, ended |-> "none"]
  /\ UNCHANGED <<restVars, logical_field, region_node, ptr_space, sizeof_rhs,
                 asked, top_views, copies>>

\* a list manager that issues its indirect copy whatever precise is
list_issues_always(precise) == TRUE

\* the branch of ListReductionManager::issue_reduction: the copy is issued
\* when precise, the other branch is assert(false)
list_issues(precise) == precise

\* the copy issue_reduction of a manager of kind k hands to the low-level
\* runtime: an indirect copy keyed by the pointer at offset 0 of the
\* instance for a list, a reduction copy for a fold
reduction_copy(k, reduction_fold, src_fields) ==
  IF k = "list"
  THEN [call |-> "issue_indirect_copy",
        idx_field |-> <<[inst |-> reduction_instance, offset |-> 0,
                         size |-> sizeof_ptr_t]>>,
        reduction_fold |-> reduction_fold, src_fields |-> src_fields]
  ELSE [call |-> "issue_reduction_copy", idx_field |-> <<>>,
        reduction_fold |-> reduction_fold, src_fields |-> src_fields]

\* ListReductionManager / FoldReductionManager::issue_reduction with the
\* source fields the caller collected; the event it returns is the event
\* of the copy
issue_reduction(precise, reduction_fold) ==
  /\ Answering
  /\ kind \in {"fold", "list"}
  /\ Len(copies) < MaxCalls
  /\ LET issues == kind = "fold" \/ list_issues(precise)
     IN /\ copies' = IF issues
                     THEN Append(copies,
                            reduction_copy(kind, reduction_fold, reduce_fields))
                     ELSE copies
        /\ query' = [op |-> "issue_reduction", mask |-> {},
                     precise |-> precise,
                     event |-> IF issues THEN Len(copies) + 1 ELSE NO_EVENT,
                     ended |-> IF issues THEN "none" ELSE "assert"]
  /\ UNCHANGED <<restVars, logical_field, region_node, ptr_space, sizeof_rhs,
                 asked, top_views, reduce_fields>>

\* a fold or a list reduction manager over one region, with a reduction
\* operator of any size, that was asked nothing yet
InitReduce ==
  /\ kind \in {"fold", "list"}
  /\ ManagerBuilt
  /\ region_node = <<1, 1>>
  /\ asked = <<>>
  /\ sizeof_rhs \in 1..MaxRhs
  /\ ptr_space = IF kind = "list" THEN Rect(<<0>>, <<MaxCoord>>) ELSE NO_DOMAIN
  /\ BuiltOver(<<1, 1>>, Rect(<<0>>, <<MaxCoord>>))

\* the masks callers hand to find_field_offsets: no field, the first field,
\* the fields from the second on, every field
ReduceMasks == {{}, {0}, Bits \ {0}, Bits}

NextReduce ==
  \/ \E reduce_mask \in ReduceMasks : find_field_offsets(reduce_mask)
  \/ \E precise, reduction_fold \in BOOLEAN : issue_reduction(precise, reduction_fold)

SpecReduce == InitReduce /\ [][NextReduce]_vars

\* ------------------------- a builder asked for the size, then to build
\* the field sets of the build: the fields of the first bits of the mask
FirstFields == {[i \in 1..n |-> FieldAt(i - 1)] : n \in 1..MaxBuildFields}

\* a builder for one to MaxRegions subregions of the root of the first
\* tree, of dimension 0 or 1 and of any domains, for a normal or a fold
\* instance of one to MaxBuildFields fields
InitNeeded ==
  /\ NothingBuilt
  /\ FreshBuilder
  /\ debug_high_level = FALSE
  /\ \E dim \in 0..1 : \E n \in 1..MaxRegions :
       /\ regions \in [1..n -> RegionDomains(dim)]
       /\ region_nodes = Subregions(n)
  /\ \A i, j \in 1..Len(regions) :
       region_nodes[i] = region_nodes[j] => regions[i] = regions[j]
  /\ specialized \in {"NORMAL_SPECIALIZE", "REDUCTION_FOLD_SPECIALIZE"}
  /\ ordering = <<>>
  /\ field_constraint \in FirstFields

\* the size is asked of the builder, the builder builds, and the size is
\* asked of the manager it made
NextNeeded ==
  \/ \E undefined \in UndefinedSteps : compute_needed_size(undefined)
  \/ \E exists \in BOOLEAN : \E undefined \in UndefinedSteps :
       create_physical_instance(exists, undefined)
  \/ get_instance_size

SpecNeeded == InitNeeded /\ [][NextNeeded]_vars

\* ======================================================== properties

Quiescent ==
  \A s \in Nodes : \A d \in Nodes :
    \A i \in 1..Len(chan[s][d]) : chan[s][d][i].type \notin {"gc", "valid"}

\* the step destroys the owner's manager object
OwnerDestroyedStep == mgr[Owner] = "live" /\ mgr'[Owner] = "deleted"

\* the step asks the allocator to destroy the instance
InstanceDestroyStep == instance_destroys' > instance_destroys

ActiveProxies == {n \in Remotes : mgr[n] = "live" /\ gc_references[n] > 0}
ValidProxies == {n \in Remotes : mgr[n] = "live" /\ valid_references[n] > 0}

\* C1: the owner never destroys the backing allocation (perform_deletion or
\* the destruction of the owner manager) while the handle of some node is
\* still active or valid, whatever deltas are in flight.
C1_NoDestroyWhileInUse ==
  [][(InstanceDestroyStep \/ OwnerDestroyedStep)
       => \A n \in Nodes :
            mgr'[n] = "live" =>
              gc_references'[n] = 0 /\ valid_references'[n] = 0]_vars

\* C2 as stated: whenever no delta is in flight the adds made across the
\* cluster equal the removes (no reference is outstanding), and the owner's
\* resource counter is 0 exactly when every remote proxy has been dropped.
C2_AddsEqualRemoves ==
  Quiescent =>
    /\ \A n \in Nodes : gc_references[n] = 0 /\ valid_references[n] = 0
    /\ resource_references[Owner] = 0 <=> \A n \in Remotes : mgr[n] # "live"

\* C2 amended: whenever no delta is in flight and the owner manager exists,
\* the owner's gc (valid) counter is the gc (valid) references of its local
\* users plus the number of active (valid) proxies, and a remote proxy is
\* dropped only after the owner manager was destroyed.
C2_Balance ==
  /\ (Quiescent /\ mgr[Owner] = "live") =>
       /\ gc_references[Owner] = held_gc[Owner] + Cardinality(ActiveProxies)
       /\ valid_references[Owner] = held_valid[Owner] + Cardinality(ValidProxies)
  /\ \A n \in Remotes : mgr[n] = "deleted" => mgr[Owner] = "deleted"

C2_Witness ==
  /\ Quiescent
  /\ mgr[Owner] = "live"
  /\ held_gc[Owner] = 0
  /\ gc_references[Owner] = 2
  /\ valid_references[Owner] = 1

\* C3: over any sequence of perform_deletion calls the allocator receives
\* one destroy request for the instance, the calls after the first being
\* no-ops.
C3_DestroyedOnce == instance_destroys <= 1

\* C4 as stated: when the owner manager is destroyed and the allocation
\* still exists (no destroy was requested yet), the destruction requests
\* its deletion from the allocator.
C4_DestructionDeletes ==
  [][(OwnerDestroyedStep /\ instance_destroys = 0)
       => instance_destroys' = 1]_vars

\* C4 amended: when the owner's resource count falls from positive to 0 with
\* no gc or valid reference left the manager is destroyed, and its
\* destruction requests no deletion from the allocator: it logs a leak
\* warning for the instance and tells every remote instance to drop its
\* resource reference.
C4_DestructionLeaks ==
  [][/\ (/\ mgr[Owner] = "live"
         /\ resource_references[Owner] > 0
         /\ resource_references'[Owner] = 0
         /\ gc_references'[Owner] = 0
         /\ valid_references'[Owner] = 0) => mgr'[Owner] = "deleted"
     /\ OwnerDestroyedStep =>
          /\ instance_destroys' = instance_destroys
          /\ last'.node = Owner
          /\ Count(last'.calls, "log_leak.warning") = 1
          /\ ~Contains(last'.calls, "instance.destroy")
          /\ \A r \in remote_instances[Owner] :
               /\ chan'[Owner][r] # <<>>
               /\ chan'[Owner][r][Len(chan'[Owner][r])] = ResourceUpdate(1, FALSE)]_vars

C4_Witness ==
  /\ mgr[Owner] = "deleted"
  /\ instance_destroys = 0
  /\ last.op = "remove_base_resource_ref"
  /\ remote_instances[Owner] # {}

\* C5: the owner's memory manager gets activate_instance exactly in the
\* steps that take the owner's aggregate gc count from 0 to positive and
\* deactivate_instance exactly in the steps that take it back to 0, never
\* out of turn: +1, +1, -1, -1 from two remotes give one of each.
C5_OwnerActivation ==
  [][/\ (~mm_active[Owner] /\ mm_active'[Owner])
          <=> (gc_references[Owner] = 0 /\ gc_references'[Owner] > 0)
     /\ (mm_active[Owner] /\ ~mm_active'[Owner])
          <=> (gc_references[Owner] > 0 /\ gc_references'[Owner] = 0)
     /\ mm_error'[Owner] \notin {"activate_instance", "deactivate_instance"}]_vars

C5_Witness ==
  /\ gc_references[Owner] = 2
  /\ held_gc[Owner] = 0
  /\ mm_active[Owner]
  /\ Quiescent

\* C6: the owner's memory manager gets validate_instance exactly in the
\* steps that make the owner's valid count positive and invalidate_instance
\* exactly in the steps that return it to zero, so the two calls alternate
\* and validate_instance comes first.
C6_OwnerValidation ==
  [][/\ (~mm_valid[Owner] /\ mm_valid'[Owner])
          <=> (valid_references[Owner] = 0 /\ valid_references'[Owner] > 0)
     /\ (mm_valid[Owner] /\ ~mm_valid'[Owner])
          <=> (valid_references[Owner] > 0 /\ valid_references'[Owner] = 0)
     /\ mm_error'[Owner] \notin {"validate_instance", "invalidate_instance"}]_vars

C6_Witness ==
  /\ valid_references[Owner] = 2
  /\ held_valid[Owner] = 0
  /\ mm_valid[Owner]
  /\ collectable = FALSE

\* the step appends delta m to the channel from n to the owner and sends
\* nothing else from n
DeltaSent(n, m) ==
  /\ chan'[n][Owner] = Append(chan[n][Owner], m)
  /\ \A d \in Nodes \ {Owner} : chan'[n][d] = chan[n][d]

\* C7: on a node that is not the owner each of notify_active,
\* notify_inactive, notify_valid and notify_invalid sends one delta of count
\* 1 to the owner (gc for active/inactive, valid for valid/invalid, an add
\* for active/valid, a remove for inactive/invalid); on the owner none of
\* them sends a message.
C7_NotifySendsOneDelta ==
  [][\A n \in Nodes :
       LET activated == gc_references[n] = 0 /\ gc_references'[n] > 0
           deactivated == gc_references[n] > 0 /\ gc_references'[n] = 0
           validated == valid_references[n] = 0 /\ valid_references'[n] > 0
           invalidated == valid_references[n] > 0 /\ valid_references'[n] = 0
       IN IF is_owner(n)
          THEN /\ ((activated \/ deactivated \/ validated \/ invalidated)
                     /\ mgr'[n] = "live") => chan'[n] = chan[n]
               /\ \A d \in Nodes : \A i \in 1..Len(chan'[n][d]) :
                    chan'[n][d][i].type \notin {"gc", "valid"}
          ELSE /\ activated => DeltaSent(n, GcUpdate(1, TRUE))
               /\ deactivated => DeltaSent(n, GcUpdate(1, FALSE))
               /\ validated => DeltaSent(n, ValidUpdate(1, TRUE))
               /\ invalidated => DeltaSent(n, ValidUpdate(1, FALSE))]_vars

C7_Witness ==
  /\ \E n \in Remotes :
       chan[n][Owner] = <<GcUpdate(1, TRUE), ValidUpdate(1, TRUE)>>
  /\ gc_references[Owner] = 1
  /\ held_gc[Owner] = 1
  /\ \A d \in Nodes : chan[Owner][d] = <<>>

\* C8: a receiver that cannot register the manager it received drops its
\* tentative copy by removing the remote-did resource reference and deletes
\* it once that removal reports zero, for instance, fold and list managers
\* alike; the node keeps one registered manager.
C8_TentativeDropRemovesRef ==
  (last.op = "handle_send_manager" /\ Contains(last.calls, "legion_delete"))
    => /\ Before(last.calls, "remove_base_resource_ref", "legion_delete")
       /\ mgr[last.node] = "live"

\* C9 as stated: the remote_instances set of a remote proxy stays empty.
C9_RemoteInstancesOnlyOnOwner ==
  \A n \in Remotes : remote_instances[n] = {}

\* C9 amended: a registered remote proxy's remote_instances is not empty: it
\* holds the node the proxy received the manager from; every member of a
\* manager's remote_instances is a node it sent the manager to or received
\* it from, and never the manager's own node.
C9_RemoteInstancesArePeers ==
  \A n \in Nodes :
    mgr[n] = "live" =>
      /\ n \notin remote_instances[n]
      /\ \A t \in remote_instances[n] :
           <<n, t>> \in manager_sent \/ <<t, n>> \in manager_received
      /\ n \in Remotes =>
           \E s \in remote_instances[n] : <<s, n>> \in manager_received

C9_Witness ==
  \E n \in Remotes :
    /\ mgr[n] = "live"
    /\ Owner \in remote_instances[n]
    /\ \E t \in Remotes : t \in remote_instances[n] /\ <<n, t>> \in manager_sent

\* C10: the known_nodes of a layout holds a node only when a message
\* packing the layout was sent to that node before, or one was received
\* from it: send_manager adds the target after the send.
C10_KnownAfterSend ==
  \A n \in Nodes : \A t \in known_nodes[n] :
    <<n, t>> \in manager_sent \/ <<t, n>> \in manager_received

C10_Witness ==
  /\ kind = "instance"
  /\ \E n \in Nodes :
       /\ pc[n] = "sent"
       /\ send_target[n] \notin known_nodes[n]
       /\ <<n, send_target[n]>> \in manager_sent
       /\ known_nodes[n] # {}


\* ------------------------------------------------------------------ C11
\* the senders whose manager message node n has handled
SendersHandled(n) == {s \in Nodes : <<s, n>> \in manager_received}

\* the step is a handle_send_manager on node n that unpacked a layout sent
\* with the known-to-target flag false
UnpackNewLayoutStep(n) ==
  /\ manager_received' # manager_received \/ chan' # chan
  /\ last'.op = "handle_send_manager"
  /\ last'.node = n
  /\ Contains(last'.calls, "create_layout_description")

\* C11: a layout delivered again, with the known-to-target flag false, to a
\* node that already has it leaves the node with the same layouts as the
\* single delivery did: one layout for the (field mask, constraints) pair
C11_LayoutIdempotent ==
  [][\A n \in Remotes :
       (UnpackNewLayoutStep(n) /\ layouts[n] = 1)
         => (layouts'[n] = 1 /\ layout_refs'[n] = layout_refs[n])]_vars

\* two senders raced, the second delivery created its layout and dropped it
C11_Witness ==
  /\ last.op = "handle_send_manager"
  /\ Contains(last.calls, "create_layout_description")
  /\ Contains(last.calls, "legion_delete")
  /\ Cardinality(SendersHandled(last.node)) >= 2
  /\ layouts[last.node] = 1


PackStep(t) == rez_layout' # rez_layout /\ rez_layout'.target = t

\* C13: pack_layout_description(target) writes three items after what the
\* serializer holds, in order the flag, the constraint id and
\* allocated_fields; the flag is set exactly when target is in known_nodes
\* as the pack begins, and the pack leaves known_nodes as it is
C13_PackThreeItems ==
  [][\A t \in Remotes :
       PackStep(t) =>
         /\ rez_layout'.items =
              send_manager_header
                \o <<t \in known_nodes[Owner], "constraint_did", allocated_fields>>
         /\ Len(rez_layout'.items) = Len(send_manager_header) + 3
         /\ known_nodes' = known_nodes]_vars

\* a layout was packed for a target that is known to have it
C13_Witness ==
  /\ Len(rez_layout.items) = Len(send_manager_header) + 3
  /\ rez_layout.target \in known_nodes[Owner]
  /\ rez_layout.items[Len(send_manager_header) + 1] = TRUE
  /\ known_nodes[Owner] # Remotes

\* ------------------------------------------------------------------ C14
\* C14: compress(x, m) has bit k set exactly when k is below popcount(m)
\* and x has the k-th set bit of m, so that it has as many bits as x & m
C14_CompressSelects ==
  compress_ran =>
    /\ compressed = {k \in Bits : /\ k < pop_count(allocated_fields)
                                  /\ find_index_set(allocated_fields, k) \in copy_mask}
    /\ pop_count(compressed) = pop_count(MaskAnd(copy_mask, allocated_fields))

\* a mask with gaps compressed a mask that reaches outside it
C14_Witness ==
  /\ compress_ran
  /\ copy_mask \ allocated_fields # {}
  /\ pop_count(compressed) >= 2
  /\ compressed # MaskAnd(copy_mask, allocated_fields)
  /\ \E b \in Bits \ allocated_fields : \E c \in allocated_fields : b < c

\* ------------------------------------------------------------------ C15
\* the records call e appended to the vector of layout L
Appended(e, L) == SubSeq(fields[L], e.first[L] + 1, e.first[L] + e.count[L])

MaskCalls == {i \in 1..Len(call_log) : call_log[i].op = "mask"}

\* C15: a call with a mask of allocated fields appends one record per field
\* of the mask, in the order of the fields' bits in allocated_fields; the
\* source and the destination layout of a copy, which share
\* allocated_fields, append as many records, the i-th of the same field
C15_CopyOffsetsInMaskOrder ==
  \A c \in MaskCalls :
    LET e == call_log[c]
    IN (e.completed /\ e.mask \subseteq allocated_fields) =>
         /\ Len(Appended(e, "src")) = pop_count(e.mask)
         /\ Len(Appended(e, "dst")) = Len(Appended(e, "src"))
         /\ \A i \in 1..pop_count(e.mask) :
              /\ Appended(e, "src")[i].field_id = FieldAt(find_index_set(e.mask, i - 1))
              /\ Appended(e, "dst")[i].field_id = Appended(e, "src")[i].field_id
              /\ Appended(e, "src")[i].inst = InstanceOf("src")
              /\ Appended(e, "dst")[i].inst = InstanceOf("dst")

\* two fields were copied: the field of the lower bit, which has the higher
\* id, came first
C15_Witness ==
  \E c \in MaskCalls :
    LET e == call_log[c]
    IN /\ e.completed
       /\ e.mask \subseteq allocated_fields
       /\ pop_count(e.mask) = 2
       /\ Len(Appended(e, "dst")) = 2
       /\ Appended(e, "src")[1].field_id > Appended(e, "src")[2].field_id

\* ------------------------------------------------------------------ C16
\* the fields of the records call e appended to the vector of layout L
AppendedFields(e, L) == {Appended(e, L)[i].field_id : i \in 1..e.count[L]}

\* call e dropped the bits outside allocated_fields
DroppedExtraBits(e) ==
  /\ e.completed
  /\ \A L \in LayoutNames :
       /\ e.count[L] = pop_count(MaskAnd(e.mask, allocated_fields))
       /\ AppendedFields(e, L) = {FieldAt(b) : b \in MaskAnd(e.mask, allocated_fields)}

\* C16 as stated: a mask with bits outside allocated_fields has them
\* dropped; the call completes and appends the records of the intersection
C16_ExtraBitsDropped ==
  \A c \in MaskCalls : DroppedExtraBits(call_log[c])

\* C16 amended: that is so in a build without DEBUG_HIGH_LEVEL; with it a
\* mask with bits outside allocated_fields fails the assertion on the
\* popcounts and the call appends nothing
C16_ExtraBitsDroppedUnchecked ==
  \A c \in MaskCalls :
    LET e == call_log[c]
    IN IF debug_high_level /\ ~(e.mask \subseteq allocated_fields)
       THEN /\ ~e.completed
            /\ layout_error = "assert"
            /\ \A L \in LayoutNames : e.count[L] = 0
       ELSE DroppedExtraBits(e)

\* a release build was given a mask with a bit of the layout and one outside
C16_Witness ==
  \E c \in MaskCalls :
    LET e == call_log[c]
    IN /\ ~debug_high_level
       /\ e.completed
       /\ e.mask \ allocated_fields # {}
       /\ e.count["src"] = 1
       /\ e.count["dst"] = 1

\* ------------------------------------------------------------------ C17
FieldCalls == {i \in 1..Len(call_log) : call_log[i].op = "fid"}

\* C17: compute_copy_offsets(field_id) appends one record, that of the
\* field, when the layout has the field; for any other field id it fails
\* and appends nothing
C17_UnknownFieldFails ==
  \A c \in FieldCalls :
    LET e == call_log[c]
    IN IF e.fid \in DOMAIN field_indexes["src"]
       THEN /\ e.completed
            /\ e.count["src"] = 1
            /\ Appended(e, "src")[1].field_id = e.fid
       ELSE /\ ~e.completed
            /\ e.count["src"] = 0

\* ------------------------------------------------------------------ C18
\* C18: once a call with a mask has run, a later call with the same mask
\* finds it in comp_cache, adds no entry to the cache and appends the
\* records the first call appended
C18_SecondCallHitsCache ==
  \A c1 \in MaskCalls : \A c2 \in MaskCalls :
    (c1 < c2 /\ call_log[c1].mask = call_log[c2].mask /\ call_log[c2].completed) =>
      \A L \in LayoutNames :
        /\ call_log[c2].found_in_cache[L]
        /\ call_log[c2].added[L] = 0
        /\ Appended(call_log[c2], L) = Appended(call_log[c1], L)
        /\ LET bucket == comp_cache[L][get_hash_key(call_log[c2].mask)]
           IN Cardinality({i \in 1..Len(bucket) :
                             bucket[i][1] = call_log[c2].mask}) = 1

\* the same mask of two fields was used twice after a miss
C18_Witness ==
  /\ Len(call_log) = 2
  /\ call_log[1].op = "mask"
  /\ call_log[2].op = "mask"
  /\ call_log[1].mask = call_log[2].mask
  /\ call_log[2].completed
  /\ ~call_log[1].found_in_cache["src"]
  /\ call_log[1].added["src"] = 1
  /\ call_log[2].count["src"] = 2
  /\ Len(fields["dst"]) = 4


\* ------------------------------------------------------------------ C19
\* domain d holds every point of domain r
Dominates(d, r) ==
  IF r.dim = 0 THEN d.dim = 0 /\ r.mask \subseteq d.mask
  ELSE /\ d.dim = r.dim
       /\ \A a \in Axes(r.dim) : d.lo[a] <= r.lo[a] /\ r.hi[a] <= d.hi[a]

RegionSet == {regions[i] : i \in 1..Len(regions)}
LeastOf(S) == CHOOSE x \in S : \A y \in S : x <= y
GreatestOf(S) == CHOOSE x \in S : \A y \in S : y <= x

\* the builder has computed its covering domain
Initialized == builder_pc \in {"built", "failed"} /\ regions # <<>>

\* C19: the instance domain of a build covers every region it was asked
\* for; for rectangles it is their convex hull (the least and the greatest
\* corner on every axis), for index spaces the union of their elements;
\* [0..3]x[0..3] and [2..5]x[2..5] give [0..5]x[0..5]
C19_DomainCoversRegions ==
  /\ convex_hull(Rect(<<0, 0>>, <<3, 3>>), Rect(<<2, 2>>, <<5, 5>>))
       = Rect(<<0, 0>>, <<5, 5>>)
  /\ Initialized =>
       /\ \A r \in RegionSet : Dominates(instance_domain, r)
       /\ IF regions[1].dim = 0
          THEN instance_domain = IndexSpace(UNION {r.mask : r \in RegionSet})
          ELSE instance_domain =
                 Rect([a \in Axes(regions[1].dim) |-> LeastOf({r.lo[a] : r \in RegionSet})],
                      [a \in Axes(regions[1].dim) |-> GreatestOf({r.hi[a] : r \in RegionSet})])

\* two rectangles of dimension 2 that do not meet got a domain larger than
\* both, and a manager was built on it
C19_Witness ==
  /\ builder_pc = "built"
  /\ Len(regions) = 2
  /\ regions[1].dim = 2
  /\ ~Dominates(regions[1], regions[2])
  /\ ~Dominates(regions[2], regions[1])
  /\ instance_domain \notin RegionSet
  /\ mgr[Owner] = "live"

\* ------------------------------------------------------------------ C20
\* the manager the builder made is gone
BuiltManagerDestroyed ==
  /\ builder_pc = "built"
  /\ mgr[Owner] = "deleted"
  /\ last.op = "remove_base_resource_ref"
  /\ last.node = Owner

\* C20 as stated: a manager built over more than one region owns its
\* domain and destroys it with itself, in every dimension; a manager built
\* over one region does not own its domain and never destroys it
C20_SynthesizedDomainOwned ==
  /\ (builder_pc = "built" /\ Len(regions) > 1) => own_domain
  /\ (builder_pc = "built" /\ Len(regions) = 1) => ~own_domain
  /\ BuiltManagerDestroyed =>
       (Contains(last.calls, "index_space.destroy") <=> Len(regions) > 1)

\* C20 amended: only the union of index spaces (dimension 0) is an index
\* space of the builder's making: the manager owns and destroys its domain
\* exactly when it was built over several regions of dimension 0; a hull of
\* rectangles and the domain of a single region are not owned and are
\* never destroyed by the manager
C20_UnionDomainOwned ==
  /\ builder_pc = "built" =>
       (own_domain <=> (Len(regions) > 1 /\ regions[1].dim = 0))
  /\ Initialized =>
       index_spaces = IF Len(regions) > 1 /\ regions[1].dim = 0 THEN 1 ELSE 0
  /\ BuiltManagerDestroyed =>
       /\ Contains(last.calls, "index_space.destroy")
            <=> (Len(regions) > 1 /\ regions[1].dim = 0)
       /\ Count(last.calls, "index_space.destroy") <= 1

\* a manager built over two rectangles was destroyed and left its domain
C20_Witness ==
  /\ BuiltManagerDestroyed
  /\ Len(regions) = 2
  /\ regions[1].dim = 3
  /\ ~own_domain
  /\ ~Contains(last.calls, "index_space.destroy")


\* ------------------------------------------------------------------ C21
\* the deepest of the nodes that lie at or above every node of the set
CommonAncestors(S) ==
  {n \in RegionNodes : \A m \in S : n \in ancestors_or_self(m)}
DeepestOf(S) == CHOOSE n \in S : \A m \in S : Len(m) <= Len(n)
RegionNodeSet == {region_nodes[i] : i \in 1..Len(region_nodes)}
SameTree == \A n, m \in RegionNodeSet : get_tree_id(n) = get_tree_id(m)

\* the builder has run initialize on the regions it was given
AncestorSought == builder_pc # "fresh" /\ region_nodes # <<>>

\* C21: for two region nodes of one tree find_common_ancestor returns the
\* deepest node at or above both, whichever comes first, and a build over
\* regions of one tree takes the deepest node at or above all of them for
\* its ancestor; a build over regions that have no common ancestor (a climb
\* comes to a node without parent) ends there: it returns no node and no
\* manager is made
C21_CommonAncestorOrFailure ==
  /\ \A one, two \in RegionNodes :
       get_tree_id(one) = get_tree_id(two) =>
         LET found == find_common_ancestor(one, two, debug_high_level)
         IN /\ found.error = "none"
            /\ found.node = DeepestOf(CommonAncestors({one, two}))
            /\ found = find_common_ancestor(two, one, debug_high_level)
  /\ (AncestorSought /\ SameTree) =>
       /\ builder_pc \in {"built", "failed"}
       /\ ancestor = DeepestOf(CommonAncestors(RegionNodeSet))
  /\ (AncestorSought /\ ~SameTree) =>
       /\ builder_pc \in {"aborted", "crashed"}
       /\ ancestor = NULL
       /\ mgr[Owner] = "none"


\* ------------------------------------------------------------------ C22
\* the places of the field dimension in the ordering of the build
FieldPlaces == {i \in 1..Len(ordering) : ordering[i] = DIM_F}

\* C22: the block size of a normal instance follows the ordering: 1 when the
\* field dimension comes first, the volume of the instance domain when it
\* comes last (and not first), and when the ordering is empty or has no
\* field dimension; an ordering whose field dimension comes neither first
\* nor last ends the build before the allocator is asked
C22_BlockSizeFollowsOrdering ==
  /\ (Initialized /\ specialized = "NORMAL_SPECIALIZE") =>
       IF 1 \in FieldPlaces THEN block_size = 1
       ELSE /\ block_size = get_volume(instance_domain)
            /\ (FieldPlaces = {} \/ Len(ordering) \in FieldPlaces)
  /\ (AncestorSought /\ specialized = "NORMAL_SPECIALIZE"
        /\ FieldPlaces # {} /\ 1 \notin FieldPlaces
        /\ Len(ordering) \notin FieldPlaces) =>
       /\ builder_pc = "aborted"
       /\ create_requests = 0
       /\ mgr[Owner] = "none"

\* an instance of more than one point was built with the field dimension
\* last of three, its block size the volume of its domain
C22_Witness ==
  /\ builder_pc = "built"
  /\ Len(ordering) = 3
  /\ FieldPlaces = {3}
  /\ block_size = get_volume(instance_domain)
  /\ block_size > 1
  /\ mgr[Owner] = "live"

\* ------------------------------------------------------------------ C23
\* C23 as stated: every specialization that asks for an instance gets its
\* kind of manager: a normal one an InstanceManager, a fold reduction a
\* FoldReductionManager and a list reduction a ListReductionManager with
\* its pointer space; no such build ends without an answer
C23_SpecializationPicksManager ==
  /\ (builder_pc = "built" /\ regions # <<>>) =>
       /\ specialized = "NORMAL_SPECIALIZE" => kind = "instance"
       /\ specialized = "REDUCTION_FOLD_SPECIALIZE" => kind = "fold"
       /\ specialized = "REDUCTION_LIST_SPECIALIZE" =>
            kind = "list" /\ ptr_space # NO_DOMAIN
  /\ (AncestorSought /\ specialized = "REDUCTION_LIST_SPECIALIZE") =>
       builder_pc \in {"built", "failed"}

\* ------------------------------------------------------------------ C24
\* C24 as stated: a fold reduction over one field gets a
\* FoldReductionManager whose logical field is that field (or no instance
\* from the allocator); over no field or over several the build ends
\* without a manager
C24_FoldNeedsOneField ==
  (AncestorSought /\ specialized = "REDUCTION_FOLD_SPECIALIZE") =>
    IF Len(field_constraint) = 1
    THEN /\ builder_pc \in {"built", "failed"}
         /\ builder_pc = "built" =>
              /\ kind = "fold"
              /\ mgr[Owner] \in {"live", "deleted"}
              /\ logical_field = field_constraint[1]
    ELSE /\ builder_pc \in {"aborted", "crashed", "failed"}
         /\ mgr[Owner] = "none"

\* ------------------------------------------------------------------ C25
\* C25: a build with the virtual specialization logs its error and ends on
\* an assertion: the allocator was asked for nothing, no distributed id was
\* taken and no manager made or registered
C25_VirtualAborts ==
  (AncestorSought /\ specialized = "VIRTUAL_SPECIALIZE") =>
    /\ builder_pc = "aborted"
    /\ log_run = <<"Illegal request to create a virtual instance">>
    /\ create_requests = 0
    /\ distributed_ids = 0
    /\ mgr = [n \in Nodes |-> "none"]
    /\ last = Quiet

\* a virtual build over two regions was given up
C25_Witness ==
  /\ specialized = "VIRTUAL_SPECIALIZE"
  /\ builder_pc = "aborted"
  /\ Len(regions) = 2
  /\ log_run # <<>>
  /\ instance_domain # NO_DOMAIN

C27_FirstTopViewStays ==
  [][/\ (query'.op = "register_logical_top_view"
           /\ top_views[query'.context] # NoView) =>
          top_views'[query'.context] = top_views[query'.context]
     /\ (query'.op = "find_logical_top_view"
           /\ top_views[query'.context] # NoView) =>
          /\ query'.ended = "none"
          /\ query'.view = top_views[query'.context]]_vars

\* ------------------------------------------------------------------ C28
\* C28: an unregister_logical_top_view(view) that returns has erased one
\* entry, an entry of that view, and left the entry of every other context
\* as it was
C28_UnregisterErasesOne ==
  [][(query'.op = "unregister_logical_top_view" /\ query'.ended = "none") =>
       \E c \in Contexts :
         /\ top_views[c] = query'.view
         /\ top_views' = [top_views EXCEPT ![c] = NoView]]_vars

\* view 1 was registered under context 1 and view 2 under context 2; view 1
\* was unregistered and context 2 still has view 2
C28_Witness ==
  /\ query.op = "unregister_logical_top_view"
  /\ query.view = 1
  /\ query.ended = "none"
  /\ top_views[1] = NoView
  /\ top_views[2] = 2

\* ------------------------------------------------------------------ C29
\* C29 as stated: meets_regions answers, and answers true exactly when
\* every region asked about is of the tree of the manager and has a domain
\* the instance domain of the manager dominates, in dimensions 0 to 3; a
\* manager of [0..10]x[0..10] asked about [2..5]x[3..7] of its tree
\* answers true
C29_MeetsIffDominated ==
  query.op = "meets_regions" =>
    /\ regions_met(Rect(<<0, 0>>, <<10, 10>>), <<1, 1>>,
                   <<[node |-> <<1, 2>>,
                      domain |-> Rect(<<2, 3>>, <<5, 7>>)]>>, 1) = "true"
    /\ query.ended = "none"
    /\ query.result <=>
         \A i \in 1..Len(asked) :
           /\ get_tree_id(asked[i].node) = get_tree_id(region_node)
           /\ Dominates(instance_domain, asked[i].domain)

\* ------------------------------------------------------------------ C30
\* C30 as stated: a list reduction manager reports an instance of
\* (sizeof(pointer) + rhs_size) * |ptr_space| bytes, a fold reduction
\* manager one of rhs_size * |domain| bytes
C30_ReductionInstanceSizes ==
  query.op = "get_instance_size" =>
    /\ kind = "list" =>
         query.size = (sizeof_ptr_t + sizeof_rhs) * get_volume(ptr_space)
    /\ kind = "fold" =>
         query.size = sizeof_rhs * get_volume(instance_domain)

\* ------------------------------------------------------------------ C31
\* a step in which find_field_offsets answered
FindFieldOffsetsStep ==
  \/ reduce_fields' # reduce_fields
  \/ query' # query /\ query'.op = "find_field_offsets"

\* C31: find_field_offsets appends exactly one record whatever the mask is
\* and leaves the records already in the vector as they were: the record is
\* (instance, 0, rhs_size) for a fold manager and (instance, sizeof(ptr),
\* rhs_size) for a list manager.
C31_OneRecordWhateverMask ==
  [][FindFieldOffsetsStep =>
       /\ query'.op = "find_field_offsets"
       /\ Len(reduce_fields') = Len(reduce_fields) + 1
       /\ SubSeq(reduce_fields', 1, Len(reduce_fields)) = reduce_fields
       /\ reduce_fields'[Len(reduce_fields')] =
            [inst |-> reduction_instance,
             offset |-> IF kind = "fold" THEN 0 ELSE sizeof_ptr_t,
             size |-> sizeof_rhs]]_vars

\* a list manager was asked twice, the second time with the empty mask, and
\* holds two records behind the pointer
C31_Witness ==
  /\ kind = "list"
  /\ query.op = "find_field_offsets"
  /\ query.mask = {}
  /\ Len(reduce_fields) = 2
  /\ \A i \in 1..2 : reduce_fields[i].offset = sizeof_ptr_t

\* ------------------------------------------------------------------ C32
\* a step in which issue_reduction ran
IssueReductionStep ==
  \/ copies' # copies
  \/ query' # query /\ query'.op = "issue_reduction"

\* C32: issue_reduction of a list manager with precise set issues one
\* indirect copy keyed by the pointer at offset 0 and returns its event;
\* without precise it ends the process and issues no copy; issue_reduction
\* of a fold manager issues one reduction copy whatever precise is.
C32_IssueReduction ==
  [][IssueReductionStep =>
       /\ query'.op = "issue_reduction"
       /\ IF kind = "list" /\ ~query'.precise
          THEN /\ query'.ended = "assert"
               /\ copies' = copies
          ELSE /\ query'.ended = "none"
               /\ Len(copies') = Len(copies) + 1
               /\ SubSeq(copies', 1, Len(copies)) = copies
               /\ query'.event = Len(copies')
               /\ query'.event # NO_EVENT
               /\ LET copy == copies'[Len(copies')]
                  IN IF kind = "list"
                     THEN /\ copy.call = "issue_indirect_copy"
                          /\ copy.idx_field =
                               <<[inst |-> reduction_instance, offset |-> 0,
                                  size |-> sizeof_ptr_t]>>
                     ELSE copy.call = "issue_reduction_copy"]_vars

\* a list manager issued an indirect copy and was then asked for a
\* reduction that is not precise
C32_Witness ==
  /\ kind = "list"
  /\ query.op = "issue_reduction"
  /\ ~query.precise
  /\ query.ended = "assert"
  /\ Len(copies) = 1
  /\ copies[1].call = "issue_indirect_copy"

\* ------------------------------------------------------------------ C33
\* the sizes of the fields declared before place i of field set fs, added up
RECURSIVE SizesBefore(_, _)
SizesBefore(fs, i) ==
  IF i <= 1 THEN 0 ELSE SizesBefore(fs, i - 1) + field_size(fs[i - 1])

\* the info the layout L keeps of field fid
InfoOf(L, fid) == field_infos[L][field_indexes[L][fid] + 1]

\* C33: in every layout the offset of the field declared at place i is the
\* sum of the sizes of the fields declared before it, so the byte ranges of
\* two fields never overlap and the largest offset + size is the total
\* field size.
C33_OffsetsArePrefixSums ==
  \A L \in LayoutNames :
    LET fs == get_field_set(L, allocated_fields)
    IN /\ \A i \in 1..Len(fs) : InfoOf(L, fs[i]).offset = SizesBefore(fs, i)
       /\ \A i, j \in 1..Len(fs) :
            i # j =>
              \/ InfoOf(L, fs[i]).offset + InfoOf(L, fs[i]).size
                   <= InfoOf(L, fs[j]).offset
              \/ InfoOf(L, fs[j]).offset + InfoOf(L, fs[j]).size
                   <= InfoOf(L, fs[i]).offset
       /\ \A i \in 1..Len(fs) :
            InfoOf(L, fs[i]).offset + InfoOf(L, fs[i]).size
              <= get_total_field_size(field_infos[L])
       /\ fs # <<>> =>
            \E i \in 1..Len(fs) :
              InfoOf(L, fs[i]).offset + InfoOf(L, fs[i]).size
                = get_total_field_size(field_infos[L])

\* ------------------------------------------------------------------ C34
\* the manager of node n is active, is valid
IsActive(n) == gc_references[n] > 0
IsValid(n) == valid_references[n] > 0

\* neither the manager of node n nor its memory manager is active or valid
InactiveInvalid(n) ==
  /\ gc_references[n] = 0
  /\ valid_references[n] = 0
  /\ ~mm_active[n]
  /\ ~mm_valid[n]

Bucket(h) == comp_cache["src"][h]

\* the threads whose call has returned
Returned == {t \in Threads : threads[t].pc = "done"}

\* C35: when several threads call compute_copy_offsets with one mask at a
\* time, every entry (m, c) of the cache lies under the hash key of m and
\* has c = compress(m, allocated_fields), entries are never removed or
\* altered, and all callers append the same records; the cache may hold
\* the mask several times.
C35_RacingCallersAgree ==
  /\ [](/\ \A h \in HashKeys : \A i \in 1..Len(Bucket(h)) :
             /\ get_hash_key(Bucket(h)[i][1]) = h
             /\ Bucket(h)[i][2] = compress_mask(Bucket(h)[i][1], allocated_fields)
        /\ \A t, u \in Returned :
             threads[t].mask = threads[u].mask =>
               threads[t].fields = threads[u].fields)
  /\ [][\A h \in HashKeys :
          /\ Len(Bucket(h)') >= Len(Bucket(h))
          /\ SubSeq(Bucket(h)', 1, Len(Bucket(h))) = Bucket(h)]_vars

\* two threads raced: both missed the cache and both saved the mask, and
\* both have returned with the same records, of which there are some
C35_Witness ==
  /\ \A t \in Threads : t <= 2 => (t \in Returned /\ ~threads[t].found_in_cache)
  /\ threads[1].fields = threads[2].fields
  /\ threads[1].fields # <<>>
  /\ Len(Bucket(get_hash_key(copy_mask))) >= 2
  /\ Bucket(get_hash_key(copy_mask))[1] = Bucket(get_hash_key(copy_mask))[2]

\* ------------------------------------------------------------------ C36
\* C36: the pointer space of a list reduction manager is destroyed exactly
\* once in the cluster, by the destruction of the manager of the owner: the
\* destruction of a proxy, or of a tentative copy that a receiver drops,
\* leaves the pointer space alone.
C36_PointerSpaceDestroyedByOwner ==
  (kind = "list" /\ Contains(last.calls, "ptr_space.destroy")) =>
    /\ last.node = Owner
    /\ Count(last.calls, "ptr_space.destroy") = 1
    /\ mgr[Owner] = "deleted"

\* ------------------------------------------------------------------ C37
\* C37: a builder derives its state once: after compute_needed_size and
\* create_physical_instance on one builder, initialize has run a single
\* time, so the builder has created at most one index space for its
\* covering domain.
C37_InitializedOnce == index_spaces <= 1

\* ------------------------------------------------------------------ C38
\* C38: get_instance_size of an instance manager the builder made is what
\* compute_needed_size of the builder returned: the sum of the field sizes
\* times the volume of the instance domain, also for a manager built over
\* several regions, whose region node is their common ancestor.
C38_SizeIsNeededSize ==
  (kind = "instance" /\ query.op = "get_instance_size") =>
    /\ query.size =
         total_field_bytes(compute_create_offsets(field_constraint).field_sizes, 1)
           * get_volume(instance_domain)
    /\ \A i \in 1..Len(needed_sizes) : query.size = needed_sizes[i]

\* ------------------------------------------------------------------ C39
\* C39: every manager object that is not the owner's registers with the
\* memory manager once, when it is constructed, and unregisters once, when
\* it is destroyed, also the tentative copy a receiver drops because the
\* manager is registered already; the owner's manager registers with no
\* memory manager as a remote instance, and when it is destroyed it sends
\* one removal of a resource reference to each node of remote_instances
\* and nothing to any other node.
C39_RegisteredAndUnregisteredOnce ==
  [][LET calls == last'.calls
         n == last'.node
     IN /\ Count(calls, "register_remote_instance") =
             IF n # Owner THEN Count(calls, "legion_new") ELSE 0
        /\ Count(calls, "unregister_remote_instance") =
             IF n # Owner THEN Count(calls, "legion_delete") ELSE 0
        /\ Count(calls, "legion_new") <= 1
        /\ Count(calls, "legion_delete") <= 1
        /\ (Contains(calls, "legion_new") /\ Contains(calls, "legion_delete")) =>
             Before(calls, "register_remote_instance", "unregister_remote_instance")
        /\ OwnerDestroyedStep =>
             \A d \in Nodes :
               chan'[Owner][d] =
                 IF d \in remote_instances[Owner]
                 THEN Append(chan[Owner][d], ResourceUpdate(1, FALSE))
                 ELSE chan[Owner][d]]_vars

\* a receiver dropped its tentative copy, which had registered and has
\* unregistered, and the proxy that was there is still registered
C39_Witness ==
  /\ last.op = "handle_send_manager"
  /\ last.node # Owner
  /\ Contains(last.calls, "legion_delete")
  /\ Count(last.calls, "register_remote_instance") = 1
  /\ Count(last.calls, "unregister_remote_instance") = 1
  /\ mgr[last.node] = "live"
====
